---- MODULE Spec2Model ----
(***************************************************************************)
(* Rule-matching / evidence-classification engine of the Essential Eight   *)
(* evidence scanner: the strategies of src/strategies and the fuzzy macro  *)
(* strategy of src/macro_strategy.py, as a state machine whose steps are   *)
(* emit_hits calls on one strategy instance (Spec), calls of the helper    *)
(* functions on their own (SpecNormalize, SpecFuzzy, SpecIntAfter) and     *)
(* load_strategies() calls with the sessions they start (SpecSessions).    *)
(*                                                                         *)
(* Text is a sequence of one-character strings; None is the value NoneT.   *)
(***************************************************************************)
EXTENDS Integers, Sequences, FiniteSets, TLC

\* ------------------------------------------------------------------------
\* Characters and strings
\* ------------------------------------------------------------------------

\* a TLA+ string literal as a sequence of one-character strings
S(s) == [i \in 1..Len(s) |-> SubSeq(s, i, i)]

Range(q) == {q[i] : i \in DOMAIN q}

\* the function f with its values computed once (f @@ <<>> = f)
Tabulated(f) == f @@ <<>>

\* the element of a one-element set; Only({e(x) : x \in {v}}) is e of the value of v
Only(set) == CHOOSE x \in set : TRUE

\* the least and the greatest element of a non-empty set of integers
Least(set) == CHOOSE j \in set : \A k \in set : j <= k
Greatest(set) == CHOOSE j \in set : \A k \in set : j >= k

LowerAlphabet == S("abcdefghijklmnopqrstuvwxyz")
UpperAlphabet == S("ABCDEFGHIJKLMNOPQRSTUVWXYZ")
LowerChars == Range(LowerAlphabet)
UpperChars == Range(UpperAlphabet)
DigitChars == Range(S("0123456789"))
\* Python str.split() / regex \s separators
SpaceChars == {" ", "\t", "\n", "\r", "\f"}
\* regex \w
WordChars == LowerChars \cup UpperChars \cup DigitChars \cup {"_"}

\* str.lower() on one character
LowerChar(c) ==
  IF c \in UpperChars
    THEN LowerAlphabet[CHOOSE i \in 1..26 : UpperAlphabet[i] = c]
    ELSE c

\* str.lower()
Lower(t) == [i \in 1..Len(t) |-> LowerChar(t[i])]

\* str.split(): the maximal runs of non-whitespace characters, in order
RECURSIVE SplitFrom(_, _)
SplitFrom(t, i) ==
  IF i > Len(t) THEN <<>>
  ELSE IF t[i] \in SpaceChars
    THEN LET words == {j \in i..Len(t) : t[j] \notin SpaceChars}
         IN IF words = {} THEN <<>> ELSE SplitFrom(t, Least(words))
  ELSE LET stops == {j \in i..Len(t) : t[j] \in SpaceChars}
           e == IF stops = {} THEN Len(t) ELSE Least(stops) - 1
       IN <<SubSeq(t, i, e)>> \o SplitFrom(t, e + 1)

Split(t) == SplitFrom(t, 1)

\* " ".join(words)
RECURSIVE JoinSpace(_)
JoinSpace(ws) ==
  IF ws = <<>> THEN <<>>
  ELSE IF Len(ws) = 1 THEN ws[1]
  ELSE ws[1] \o <<" ">> \o JoinSpace(Tail(ws))

\* the Python value None, for an argument that may be a string or None
\* (its single element is not a character, so it differs from every string)
NoneT == <<"None">>
IsNone(x) == x = NoneT

\* p in text  (substring containment)
Contains(text, p) ==
  \E i \in 0..(Len(text) - Len(p)) : SubSeq(text, i + 1, i + Len(p)) = p

\* ------------------------------------------------------------------------
\* Regular expressions (the subset of Python's re the source uses)
\* ------------------------------------------------------------------------

\* pattern items
Lit(s)      == [k |-> "lit", s |-> S(s)]
Cls(set, lo, hi) == [k |-> "cls", neg |-> FALSE, set |-> set, min |-> lo, max |-> hi, unb |-> FALSE]
ClsMin(set, lo)  == [k |-> "cls", neg |-> FALSE, set |-> set, min |-> lo, max |-> lo, unb |-> TRUE]
One(set)    == Cls(set, 1, 1)
Plus(set)   == ClsMin(set, 1)
Star(set)   == ClsMin(set, 0)
AnyPlus     == [k |-> "cls", neg |-> TRUE, set |-> {}, min |-> 1, max |-> 1, unb |-> TRUE]
WB          == [k |-> "wb"]
Alt(alts)   == [k |-> "alt", alts |-> alts, opt |-> FALSE]
OptAlt(alts) == [k |-> "alt", alts |-> alts, opt |-> TRUE]
Chars(s)    == Range(S(s))

\* \b at offset i (between text[i] and text[i+1])
IsWordBoundary(text, i) ==
  LET before == i >= 1 /\ text[i] \in WordChars
      after  == i < Len(text) /\ text[i + 1] \in WordChars
  IN before # after

InClass(it, c) == IF it.neg THEN c \notin it.set ELSE c \in it.set

\* length of the longest run of class characters starting after offset i
RunLen(it, text, i) ==
  LET stops == {j \in (i + 1)..Len(text) : ~InClass(it, text[j])}
  IN IF stops = {} THEN Len(text) - i ELSE Least(stops) - i - 1

\* the offsets at which a match of the items that starts at offset i can end
RECURSIVE Ends(_, _, _)
ItemEnds(it, text, i) ==
  CASE it.k = "lit" ->
         IF i + Len(it.s) <= Len(text) /\ SubSeq(text, i + 1, i + Len(it.s)) = it.s
           THEN {i + Len(it.s)} ELSE {}
    [] it.k = "cls" ->
         LET run == RunLen(it, text, i)
             top == IF it.unb \/ run < it.max THEN run ELSE it.max
         IN {i + n : n \in it.min..top}
    [] it.k = "wb" ->
         IF IsWordBoundary(text, i) THEN {i} ELSE {}
    [] it.k = "alt" ->
         UNION {Ends(it.alts[a], text, i) : a \in DOMAIN it.alts}
           \cup (IF it.opt THEN {i} ELSE {})

Ends(items, text, i) ==
  IF items = <<>> THEN {i}
  ELSE UNION {Ends(Tail(items), text, j) : j \in ItemEnds(Head(items), text, i)}

\* re.search(pat, text) is not None
Search(items, text) == \E i \in 0..Len(text) : Ends(items, text, i) # {}

\* a pattern of a table: its source text and its items
Pat(src, items) == [src |-> S(src), items |-> items]

\* ------------------------------------------------------------------------
\* strategies/overview.py : Strategy
\* ------------------------------------------------------------------------

\* Strategy.normalize
normalize(text) ==
  IF IsNone(text) THEN <<>>
  ELSE JoinSpace(Split(Lower(text)))

\* "no hit" of _any_substr / _any_regex (Python None; falsy like "")
NoHit == <<>>

\* Strategy._any_substr: the first phrase that is a substring of text
RECURSIVE AnySubstrFrom(_, _, _)
AnySubstrFrom(text, phrases, i) ==
  IF i > Len(phrases) THEN NoHit
  ELSE IF phrases[i] # <<>> /\ Contains(text, phrases[i]) THEN phrases[i]
  ELSE AnySubstrFrom(text, phrases, i + 1)

\* _any_substr returning the last phrase of the table found in the text
any_substr_last(text, phrases) ==
  LET found == {i \in DOMAIN phrases : phrases[i] # <<>> /\ Contains(text, phrases[i])}
  IN IF found = {} THEN NoHit ELSE phrases[Greatest(found)]

any_substr(text, phrases) == AnySubstrFrom(text, phrases, 1)

\* Strategy._any_regex: "re:" + the first pattern that matches
RECURSIVE AnyRegexFrom(_, _, _)
AnyRegexFrom(text, patterns, i) ==
  IF i > Len(patterns) THEN NoHit
  ELSE IF patterns[i].src # <<>> /\ Search(patterns[i].items, text)
         THEN S("re:") \o patterns[i].src
  ELSE AnyRegexFrom(text, patterns, i + 1)

any_regex(text, patterns) == AnyRegexFrom(text, patterns, 1)

\* Strategy.match for the given tables: the keywords found, then the patterns found
MatchWith(keywords, regex_any, exclude, raw_text) ==
  LET t == normalize(raw_text)
  IN IF \E i \in DOMAIN exclude : Contains(t, exclude[i]) THEN <<>>
     ELSE SelectSeq(keywords, LAMBDA kw : Contains(t, kw))
            \o [i \in DOMAIN SelectSeq(regex_any, LAMBDA pat : Search(pat.items, t)) |->
                  S("re:") \o SelectSeq(regex_any, LAMBDA pat : Search(pat.items, t))[i].src]

\* Strategy.match of a class whose keywords table holds "block"
Strategy_match_with_keyword(raw_text) ==
  MatchWith(<<S("block")>>, <<>>, <<>>, raw_text)

\* Strategy.match with the class attributes keywords = [], regex_any = [] and
\* exclude = [] of Strategy, which no strategy of the package sets
Strategy_match(raw_text) ==
  MatchWith(<<>>, <<>>, <<>>, raw_text)

\* Strategy.emit_hits (the base class): one row per hit, every field but evidence empty
Strategy_emit_hits(raw_text) ==
  LET hits == Strategy_match(raw_text)
  IN [i \in DOMAIN hits |->
        [test_id |-> "", sub_strategy |-> "", detected_level |-> "", pass_fail |-> "",
         priority |-> "", recommendation |-> "", evidence |-> <<hits[i]>>]]

\* x or y on hit values
Or(x, y) == IF x # NoHit THEN x ELSE y

\* [x for x in xs if x]
RECURSIVE Truthy(_)
Truthy(xs) ==
  IF xs = <<>> THEN <<>>
  ELSE (IF Head(xs) # NoHit THEN <<Head(xs)>> ELSE <<>>) \o Truthy(Tail(xs))

\* _ml_level_from_test_id: int of the digits of "ML<digits>-", else None (0 here)
DigitVal(c) == (CHOOSE i \in 1..10 : S("0123456789")[i] = c) - 1

RECURSIVE DigitsVal(_)
DigitsVal(ds) ==
  IF ds = <<>> THEN 0 ELSE 10 * DigitsVal(SubSeq(ds, 1, Len(ds) - 1)) + DigitVal(ds[Len(ds)])

ml_level_from_test_id(test_id) ==
  LET t == S(test_id)
      ends == Ends(<<Lit("ML"), Plus(DigitChars), Lit("-")>>, t, 0)
  IN IF ends = {} THEN 0
     ELSE DigitsVal(SubSeq(t, 3, Greatest(ends) - 1))

\* ------------------------------------------------------------------------
\* strategies/application_control.py : ApplicationControl
\* ------------------------------------------------------------------------

AC_ENFORCE_RE == <<
  Pat("\\benforc(?:e|ed|ing)\\b",
      <<WB, Lit("enforc"), Alt(<<<<Lit("e")>>, <<Lit("ed")>>, <<Lit("ing")>>>>), WB>>),
  Pat("\\brules are enforced\\b", <<WB, Lit("rules are enforced"), WB>>),
  Pat("\\benforce rules\\b", <<WB, Lit("enforce rules"), WB>>) >>

AC_BLOCK_WORD_RE == <<
  Pat("\\bblock(?:ed|ing)?\\b",
      <<WB, Lit("block"), OptAlt(<<<<Lit("ed")>>, <<Lit("ing")>>>>), WB>>) >>

BLOCK_REGEX == <<
  Pat("\\bden[vy]\\b", <<WB, Lit("den"), One(Chars("vy")), WB>>),
  Pat("\\b[dbqgo]eny\\b", <<WB, One(Chars("dbqgo")), Lit("eny"), WB>>),
  Pat("\\b[a-z]den[vy]\\b", <<WB, One(LowerChars), Lit("den"), One(Chars("vy")), WB>>),
  Pat("\\b[a-z][dbqgo]eny\\b", <<WB, One(LowerChars), One(Chars("dbqgo")), Lit("eny"), WB>>) >>

\* \b[\w-]+\s*\.\s*(?:<exts>)\b
DottedExt(src, exts) ==
  Pat(src, <<WB, Plus(WordChars \cup {"-"}), Star(SpaceChars), Lit("."), Star(SpaceChars),
             Alt(exts), WB>>)

\* \b(?:<exts>)\b
BareExt(src, exts) == Pat(src, <<WB, Alt(exts), WB>>)

Lits(names) == [i \in DOMAIN names |-> <<Lit(names[i])>>]

EXT_PATTERNS_BY_LABEL == [
  EXEC   |-> <<DottedExt("\\b[\\w-]+\\s*\\.\\s*(?:exe|com)\\b", Lits(<<"exe", "com">>)),
               BareExt("\\b(?:exe|com)\\b", Lits(<<"exe", "com">>))>>,
  DLL    |-> <<DottedExt("\\b[\\w-]+\\s*\\.\\s*(?:dll|ocx)\\b", Lits(<<"dll", "ocx">>)),
               BareExt("\\b(?:dll|ocx)\\b", Lits(<<"dll", "ocx">>))>>,
  SCRIPT |-> <<BareExt("\\b(?:bat|cmd|js|vbs|ps1|psm1|py|pl|php|scpt|wsf|wsh)\\b",
                       Lits(<<"bat", "cmd", "js", "vbs", "ps1", "psm1", "py", "pl", "php",
                              "scpt", "wsf", "wsh">>))>>,
  INST   |-> <<DottedExt("\\b[\\w-]+\\s*\\.\\s*(?:msi|msm|msp|mst|idt|cub|pcp)\\b",
                         Lits(<<"msi", "msm", "msp", "mst", "idt", "cub", "pcp">>)),
               BareExt("\\b(?:msi|msm|msp|mst|idt|cub|pcp)\\b",
                       Lits(<<"msi", "msm", "msp", "mst", "idt", "cub", "pcp">>))>>,
  CHM    |-> <<DottedExt("\\b[\\w-]+\\s*\\.\\s*chm\\b", Lits(<<"chm">>)),
               BareExt("\\bchm\\b", Lits(<<"chm">>))>>,
  HTA    |-> <<DottedExt("\\b[\\w-]+\\s*\\.\\s*hta\\b", Lits(<<"hta">>)),
               BareExt("\\bhta\\b", Lits(<<"hta">>))>>,
  CPL    |-> <<DottedExt("\\b[\\w-]+\\s*\\.\\s*cpl\\b", Lits(<<"cpl">>)),
               BareExt("\\bcpl\\b", Lits(<<"cpl">>))>> ]

Phrases(names) == [i \in DOMAIN names |-> S(names[i])]

AC_LABELS == [
  EXEC   |-> Phrases(<<"executable rules", "executable files",
                       "block executable files", "block executable files from running">>),
  DLL    |-> Phrases(<<"dll rules", "software library files", "library rules">>),
  SCRIPT |-> Phrases(<<"script rules", "script files", "obfuscated scripts",
                       "block execution of potentially obfuscated scripts">>),
  INST   |-> Phrases(<<"windows installer rules", "installer rules", "installer files">>),
  CHM    |-> Phrases(<<"compiled html files", "chm">>),
  HTA    |-> Phrases(<<"html application files", "hta">>),
  CPL    |-> Phrases(<<"control panel applet", "control panel applets", "cpl">>) ]

\* (test_id, sub_strategy, priority, label_key); the recommendation texts are
\* constants of the rows that no rule reads and are left out
Rule(tid, sub, prio, key) ==
  [test_id |-> tid, sub_strategy |-> sub, priority |-> prio, label_key |-> key]

AC_RULES == <<
  Rule("ML1-AC-01", "Executables Files must be blocked", "High", "EXEC"),
  Rule("ML1-AC-02", "Software Library Files must be blocked", "Medium", "DLL"),
  Rule("ML1-AC-03", "Unauthorised Scripts must be blocked", "High", "SCRIPT"),
  Rule("ML1-AC-04", "Installers Files must be blocked", "Medium", "INST"),
  Rule("ML1-AC-05", "Compiled HTML files must be blocked", "Low", "CHM"),
  Rule("ML1-AC-06", "HTML Application Files (HTA) must be blocked", "Low", "HTA"),
  Rule("ML1-AC-07", "Control Panel Applet (CPL) Files must be blocked", "Low", "CPL") >>

\* a finding row
Row(tid, sub, lvl, pf, prio, ev) ==
  [test_id |-> tid, sub_strategy |-> sub, detected_level |-> lvl, pass_fail |-> pf,
   priority |-> prio, evidence |-> ev]

AC_enforce_hit(t) == any_regex(t, AC_ENFORCE_RE)
AC_block_hit(t) == Or(any_regex(t, AC_BLOCK_WORD_RE), any_regex(t, BLOCK_REGEX))
AC_label_hit(t, r) == any_substr(t, AC_LABELS[r.label_key])
AC_ext_hit(t, r) == any_regex(t, EXT_PATTERNS_BY_LABEL[r.label_key])

\* AC_rule_rows with the "and" of line 97 turned into an "or"
AC_rule_rows_or_policy(t, r, enforce_hit, block_hit) ==
  LET label_hit == AC_label_hit(t, r)
      ext_hit == AC_ext_hit(t, r)
  IN IF enforce_hit # NoHit \/ block_hit # NoHit \/ label_hit # NoHit \/ ext_hit # NoHit
       THEN <<Row(r.test_id, r.sub_strategy, ml_level_from_test_id(r.test_id), "Pass",
                  r.priority, Truthy(<<label_hit, ext_hit, enforce_hit, block_hit>>))>>
       ELSE <<>>

\* AC_rule_rows with the evidence list of line 98 built from the action hits only
AC_rule_rows_action_evidence(t, r, enforce_hit, block_hit) ==
  LET label_hit == AC_label_hit(t, r)
      ext_hit == AC_ext_hit(t, r)
      action_ok == enforce_hit # NoHit \/ block_hit # NoHit
      evidence_ok == label_hit # NoHit \/ ext_hit # NoHit
  IN IF action_ok /\ evidence_ok
       THEN <<Row(r.test_id, r.sub_strategy, ml_level_from_test_id(r.test_id), "Pass",
                  r.priority, Truthy(<<enforce_hit, block_hit>>))>>
       ELSE <<>>

\* the body of the "for ... in self.RULES" loop for rule r: its Pass row, if any
AC_rule_rows(t, r, enforce_hit, block_hit) ==
  LET label_hit == AC_label_hit(t, r)
      ext_hit == AC_ext_hit(t, r)
      action_ok == enforce_hit # NoHit \/ block_hit # NoHit
      evidence_ok == label_hit # NoHit \/ ext_hit # NoHit
  IN IF action_ok /\ evidence_ok
       THEN <<Row(r.test_id, r.sub_strategy, ml_level_from_test_id(r.test_id), "Pass",
                  r.priority, Truthy(<<label_hit, ext_hit, enforce_hit, block_hit>>))>>
       ELSE <<>>

\* the loop over self.RULES run from the last rule to rule i
RECURSIVE AC_rows_reversed(_, _, _, _)
AC_rows_reversed(t, i, enforce_hit, block_hit) ==
  IF i > Len(AC_RULES) THEN <<>>
  ELSE AC_rows_reversed(t, i + 1, enforce_hit, block_hit)
         \o AC_rule_rows(t, AC_RULES[i], enforce_hit, block_hit)

\* the loop over self.RULES from rule i on
RECURSIVE AC_rows(_, _, _, _)
AC_rows(t, i, enforce_hit, block_hit) ==
  IF i > Len(AC_RULES) THEN <<>>
  ELSE AC_rule_rows(t, AC_RULES[i], enforce_hit, block_hit)
         \o AC_rows(t, i + 1, enforce_hit, block_hit)

AC_FAIL_ROW == Row("ML1-AC-01 to ML1-AC-07", "", 1, "Fail", "High", <<>>)

\* ApplicationControl.emit_hits with an aggregate row that names the first rule only
AC_emit_hits_first_id(raw_text) ==
  LET t == normalize(raw_text)
      rows == AC_rows(t, 1, AC_enforce_hit(t), AC_block_hit(t))
  IN IF rows # <<>> THEN rows
     ELSE <<Row(AC_RULES[1].test_id, "", 1, "Fail", "High", <<>>)>>

\* ApplicationControl.emit_hits
AC_emit_hits(raw_text) ==
  LET t == normalize(raw_text)
      rows == AC_rows(t, 1, AC_enforce_hit(t), AC_block_hit(t))
  IN IF rows # <<>> THEN rows ELSE <<AC_FAIL_ROW>>

\* ------------------------------------------------------------------------
\* strategies/restrict_admin_privileges.py : RestrictAdminPrivileges
\* ------------------------------------------------------------------------

Sp == Plus(SpaceChars)
Sep == Cls(Chars("_-"), 0, 1)

ACTION_ENFORCE_RE == <<
  Pat("\\benforc(?:e|ed|ing)\\b",
      <<WB, Lit("enforc"), Alt(Lits(<<"e", "ed", "ing">>)), WB>>),
  Pat("\\brules are enforced\\b", <<WB, Lit("rules are enforced"), WB>>),
  Pat("\\benforce rules\\b", <<WB, Lit("enforce rules"), WB>>),
  Pat("\\brequir(?:e|ed|es)\\b",
      <<WB, Lit("requir"), Alt(Lits(<<"e", "ed", "es">>)), WB>>),
  Pat("\\bapprov(?:al|e|ed|ing)\\b",
      <<WB, Lit("approv"), Alt(Lits(<<"al", "e", "ed", "ing">>)), WB>>),
  Pat("\\bjustification\\b", <<WB, Lit("justification"), WB>>),
  Pat("\\bticket\\b", <<WB, Lit("ticket"), WB>>),
  Pat("\\bworkflow\\b", <<WB, Lit("workflow"), WB>>),
  Pat("\\bpim\\b", <<WB, Lit("pim"), WB>>) >>

ACTION_BLOCK_RE == <<
  Pat("\\bblock(?:ed|ing)?\\b",
      <<WB, Lit("block"), OptAlt(Lits(<<"ed", "ing">>)), WB>>),
  Pat("\\bden(?:y|ied)\\b", <<WB, Lit("den"), Alt(Lits(<<"y", "ied">>)), WB>>),
  Pat("\\bden[vy]\\b", <<WB, Lit("den"), One(Chars("vy")), WB>>),
  Pat("\\b[dbqgo]eny\\b", <<WB, One(Chars("dbqgo")), Lit("eny"), WB>>),
  Pat("\\b[a-z]den[vy]\\b", <<WB, One(LowerChars), Lit("den"), One(Chars("vy")), WB>>),
  Pat("\\b[a-z][dbqgo]eny\\b", <<WB, One(LowerChars), One(Chars("dbqgo")), Lit("eny"), WB>>),
  Pat("\\baccess\\s+denied\\b", <<WB, Lit("access"), Sp, Lit("denied"), WB>>),
  Pat("\\bpolicy\\s+violation\\b", <<WB, Lit("policy"), Sp, Lit("violation"), WB>>),
  Pat("\\byou\\s+don'?t\\s+have\\s+permission\\b",
      <<WB, Lit("you"), Sp, Lit("don"), Cls({"'"}, 0, 1), Lit("t"), Sp, Lit("have"), Sp,
        Lit("permission"), WB>>),
  Pat("\\berr[_-]?blocked[_-]?by[_-]?administrator\\b",
      <<WB, Lit("err"), Sep, Lit("blocked"), Sep, Lit("by"), Sep, Lit("administrator"), WB>>),
  Pat("\\bblocked\\s+by\\s+(?:your\\s+)?administrator\\b",
      <<WB, Lit("blocked"), Sp, Lit("by"), Sp, OptAlt(<<<<Lit("your"), Sp>>>>),
        Lit("administrator"), WB>>),
  Pat("\\bnot\\s+authori[sz]ed\\b",
      <<WB, Lit("not"), Sp, Lit("authori"), One(Chars("sz")), Lit("ed"), WB>>),
  Pat("\\bfor\\s+administrative\\s+use\\s+only\\b",
      <<WB, Lit("for"), Sp, Lit("administrative"), Sp, Lit("use"), Sp, Lit("only"), WB>>) >>

RAP_LABELS == [
  PROCESS |-> Phrases(<<
    "privileged access process", "approval workflow", "rbac",
    "role based access control", "access control", "privileged access",
    "privileged identity management", "authentication administrator",
    "privileged access request", "approval request", "access request",
    "access approval", "require justification", "require ticket information",
    "require approval">>),
  NO_INTERNET |-> Phrases(<<
    "privileged account", "admin account", "firewall",
    "internet blocked", "block internet access", "url filtering",
    "your administrator has blocked this action", "err_blocked_by_administrator",
    "policy violation", "you dont have permission to access", "block incoming connections",
    "firewall active">>),
  NO_MAILBOX |-> Phrases(<<
    "privileged account", "admin account", "mailbox permission",
    "no mailbox", "mailbox not found", "email address: (none)", "access denied">>),
  ADMIN_ENV |-> Phrases(<<
    "privileged access workstation", "paw", "admin workstation",
    "admin network", "privileged network", "for administrative use only",
    "not authorised", "no authorization", "no authorisation", "no access">>),
  DENY_UNPRIV_LOGON |-> Phrases(<<
    "group policy objects", "security settings",
    "deny logon locally", "deny log on through remote desktop services",
    "deny access", "access denied",
    "everyone", "domain users", "authenticated users", "authorised users">>),
  PSREMOTE_DISABLED |-> Phrases(<<
    "get-pssessionconfiguration", "microsoft.powershell",
    "accessdenied", "builtin\\\\administrators accessallowed",
    "remote management users: (no members", "winrm service: disabled">>),
  DENY_PRIV_TO_WORKSTATIONS |-> Phrases(<<
    "user rights assignment", "local security policy",
    "domain admins", "enterprise admins",
    "deny logon locally", "deny log on through remote desktop services", "deny">>),
  NO_ESCALATION |-> Phrases(<<
    "runas", "runas error", "logon failure", "access is denied",
    "user account control", "administrator credentials required",
    "an administrator has blocked", "whoami /groups",
    "not a member of administrators", "this operation requires elevation",
    "winrm access denied">>) ]

RAP_RULES == <<
  Rule("ML1-RA-01", "Formal privileged access process is enforced", "High", "PROCESS"),
  Rule("ML1-RA-02", "Privileged accounts cannot access the Internet", "High", "NO_INTERNET"),
  Rule("ML1-RA-03", "Privileged accounts are not configured with mailboxes and email addresses",
       "Medium", "NO_MAILBOX"),
  Rule("ML1-RA-04", "Administrative activities occur in a separate admin environment",
       "Medium", "ADMIN_ENV"),
  Rule("ML1-RA-05",
       "Unprivileged accounts must not be able to logon to systems in the privileged environment",
       "Medium", "DENY_UNPRIV_LOGON"),
  Rule("ML1-RA-06",
       "Unprivileged user prevented from using the PowerShell remote PSRemote windows feature",
       "Medium", "PSREMOTE_DISABLED"),
  Rule("ML1-RA-07", "Privileged accounts cannot log on to standard workstations", "High",
       "DENY_PRIV_TO_WORKSTATIONS"),
  Rule("ML1-RA-08",
       "An unprivileged account logged into a standard user workstation cannot raise privileges to a privileged user",
       "Low", "NO_ESCALATION") >>

RAP_enforce_hit(t) == any_regex(t, ACTION_ENFORCE_RE)
RAP_block_hit(t) == any_regex(t, ACTION_BLOCK_RE)
RAP_label_hit(t, r) == any_substr(t, RAP_LABELS[r.label_key])

\* the body of the "for ... in self.RULES" loop for rule r: its Pass row, if any
RAP_rule_rows(t, r, enforce_hit, block_hit) ==
  LET label_hit == RAP_label_hit(t, r)
      action_ok == enforce_hit # NoHit \/ block_hit # NoHit
      evidence_ok == label_hit # NoHit
  IN IF action_ok /\ evidence_ok
       THEN <<Row(r.test_id, r.sub_strategy, ml_level_from_test_id(r.test_id), "Pass",
                  r.priority, Truthy(<<label_hit, enforce_hit, block_hit>>))>>
       ELSE <<>>

RECURSIVE RAP_rows(_, _, _, _)
RAP_rows(t, i, enforce_hit, block_hit) ==
  IF i > Len(RAP_RULES) THEN <<>>
  ELSE RAP_rule_rows(t, RAP_RULES[i], enforce_hit, block_hit)
         \o RAP_rows(t, i + 1, enforce_hit, block_hit)

RAP_FAIL_ROW == Row("ML1-RA-01 to ML1-RA-08", "", 1, "Fail", "High", <<>>)

\* RestrictAdminPrivileges.emit_hits with the fallback row appended unconditionally
RAP_emit_hits_always_fallback(raw_text) ==
  LET t == normalize(raw_text)
  IN RAP_rows(t, 1, RAP_enforce_hit(t), RAP_block_hit(t)) \o <<RAP_FAIL_ROW>>

\* RestrictAdminPrivileges.emit_hits
RAP_emit_hits(raw_text) ==
  LET t == normalize(raw_text)
      rows == RAP_rows(t, 1, RAP_enforce_hit(t), RAP_block_hit(t))
  IN IF rows # <<>> THEN rows ELSE <<RAP_FAIL_ROW>>

\* ------------------------------------------------------------------------
\* strategies/configure_macro_settings.py : ConfigureMicrosoftOfficeMacroSettings
\* ------------------------------------------------------------------------

\* stand-ins for the two non-ASCII characters of the source
Ellipsis == "U+2026"
EnDash == "U+2013"

\* Optional[set[str]] : None is the set holding NoneT, which no identity set equals
NoneSet == {NoneT}

\* the instance after __init__
CM_init ==
  [approved_users |-> NoneSet, approved_src |-> NoneT,
   adgroup_users |-> NoneSet, adgroup_src |-> NoneT,
   om02_emitted |-> FALSE]

\* _has: any phrase, lower-cased, is a substring of the lower-cased text
has(text, phrases) ==
  \E i \in DOMAIN phrases : Contains(Lower(text), Lower(phrases[i]))

\* _regex: re.search with re.I | re.S; the items are written in lower case and
\* matched against the lower-cased text
regex(text, items) == Search(items, Lower(text))

ClipLen == 180

\* _clip
clip(text) ==
  LET t == JoinSpace(Split(text))
  IN IF Len(t) > ClipLen THEN SubSeq(t, 1, ClipLen) \o <<Ellipsis>> ELSE t

\* ev = lambda s="": [self._clip(s)] if s else []
ev(s) == IF s # <<>> THEN <<clip(s)>> ELSE <<>>

\* re.findall for a pattern without groups: the leftmost matches, each as long as
\* its greedy items allow, scanning on from the end of the previous match
RECURSIVE FindAllFrom(_, _, _)
FindAllFrom(items, text, i) ==
  LET starts == {j \in i..Len(text) : Ends(items, text, j) # {}}
  IN IF starts = {} THEN <<>>
     ELSE LET b == Least(starts)
              e == Greatest(Ends(items, text, b))
          IN <<SubSeq(text, b + 1, e)>>
               \o FindAllFrom(items, text, IF e > b THEN e ELSE b + 1)

FindAll(items, text) == FindAllFrom(items, text, 0)

AlnumChars == LowerChars \cup UpperChars \cup DigitChars

\* [A-Za-z0-9._%+-]+@[A-Za-z0-9.-]+\.[A-Za-z]{2,}
EMAIL_RE == <<Plus(AlnumChars \cup Chars("._%+-")), Lit("@"),
              Plus(AlnumChars \cup Chars(".-")), Lit("."),
              ClsMin(LowerChars \cup UpperChars, 2)>>

\* \b[A-Za-z0-9][A-Za-z0-9._-]{1,}\b
SAM_RE == <<WB, One(AlnumChars), ClsMin(AlnumChars \cup Chars("._-"), 1), WB>>

STOP == Range(Phrases(<<"the", "and", "user", "users", "group", "approved", "domain",
                        "members">>))

MinSamLen == 3

\* _extract_identities
extract_identities(text) ==
  LET emails == FindAll(EMAIL_RE, text)
      sams == FindAll(SAM_RE, text)
      kept == {sm \in Range(sams) : Lower(sm) \notin STOP /\ Len(sm) >= MinSamLen}
  IN {Lower(x) : x \in Range(emails) \cup kept}

\* code point order of the characters an identity can hold
CharOrder == S("%+-./0123456789@ABCDEFGHIJKLMNOPQRSTUVWXYZ_abcdefghijklmnopqrstuvwxyz")
Ord(c) == CHOOSE i \in DOMAIN CharOrder : CharOrder[i] = c

\* a < b for Python strings: decided at the first position where they differ
StrLess(a, b) ==
  LET n == IF Len(a) < Len(b) THEN Len(a) ELSE Len(b)
      diffs == {i \in 1..n : a[i] # b[i]}
  IN IF diffs = {} THEN Len(a) < Len(b)
     ELSE Ord(a[Least(diffs)]) < Ord(b[Least(diffs)])

\* sorted(set of strings): the element with i-1 smaller elements comes i-th
Sorted(set) ==
  [i \in 1..Cardinality(set) |->
     CHOOSE x \in set : Cardinality({y \in set : StrLess(y, x)}) = i - 1]

\* repr of a list of strings: ['a', 'b']
RECURSIVE ReprItems(_, _)
ReprItems(xs, i) ==
  IF i > Len(xs) THEN <<>>
  ELSE S("'") \o xs[i] \o S("'") \o (IF i < Len(xs) THEN S(", ") ELSE <<>>)
         \o ReprItems(xs, i + 1)

\* f"{xs or 'None'}"
ListOrNone(xs) == IF xs = <<>> THEN S("None") ELSE S("[") \o ReprItems(xs, 1) \o S("]")

\* _row
row(tid, sub, lvl, pf, prio, evidence) == Row(tid, sub, lvl, pf, prio, evidence)

Ws == Star(SpaceChars)

DISABLE_ALL == <<Lit("disable"), Sp, Lit("all"), Sp, Lit("macros"), Sp, Lit("without"), Sp,
                 Lit("notification")>>

\* trust\s*center.+disable\s+all\s+macros\s+without\s+notification
OM01_TRUST_RE == <<Lit("trust"), Ws, Lit("center"), AnyPlus>> \o DISABLE_ALL

\* macro\s+settings.+disable\s+all\s+macros\s+without\s+notification
OM01_SETTINGS_RE == <<Lit("macro"), Sp, Lit("settings"), AnyPlus>> \o DISABLE_ALL

\* (gpresult|rsop|group policy).+(trust\s*center|macro).+(disable\s+all\s+macros)
OM01_GPO_RE ==
  <<Alt(Lits(<<"gpresult", "rsop", "group policy">>)), AnyPlus,
    Alt(<<<<Lit("trust"), Ws, Lit("center")>>, <<Lit("macro")>>>>), AnyPlus,
    Lit("disable"), Sp, Lit("all"), Sp, Lit("macros")>>

\* blockcontentexecutionfrominternet\s*=\s*1
OM04_VALUE_RE == <<Lit("blockcontentexecutionfrominternet"), Ws, Lit("="), Ws, Lit("1")>>

\* HKEY_(CURRENT_USER|LOCAL_MACHINE).+\\office\\\d+\.\d+\\(word|excel|powerpoint)
\*   \\security\\blockcontentexecutionfrominternet
OM04_KEY_RE ==
  <<Lit("hkey_"), Alt(Lits(<<"current_user", "local_machine">>)), AnyPlus,
    Lit("\\office\\"), Plus(DigitChars), Lit("."), Plus(DigitChars), Lit("\\"),
    Alt(Lits(<<"word", "excel", "powerpoint">>)),
    Lit("\\security\\blockcontentexecutionfrominternet")>>

\* macroruntimescope\s*=\s*(1|2)
OM05_VALUE_RE == <<Lit("macroruntimescope"), Ws, Lit("="), Ws, Alt(Lits(<<"1", "2">>))>>

OM01_PASS_PHRASES == Phrases(<<"disable all macros without notification", "vbawarnings=3",
                               "no notifications and disable all macros">>)

OM03_PHRASES ==
  Phrases(<<"blocked macros from running because the source is untrusted",
            "blocked macros from running because the file is from the internet">>)
    \o <<S("security risk ") \o <<EnDash>> \o S(" microsoft has blocked macros")>>
    \o Phrases(<<"from the internet">>)

OM07_PHRASES == Phrases(<<"managed by your organization",
                          "some settings are managed by your organization",
                          "some settings are managed by your administrator",
                          "this setting has been disabled by your administrator">>)

\* the ML1-OM-01 rows (lines 72-98)
CM_om01_rows(t) ==
  (IF has(t, OM01_PASS_PHRASES) \/ regex(t, OM01_TRUST_RE) \/ regex(t, OM01_SETTINGS_RE)
     THEN <<row("ML1-OM-01", "Disable for unapproved users", "ML1", "PASS", "High", ev(t))>>
   ELSE IF has(t, Phrases(<<"disable with notification">>))
     THEN <<row("ML1-OM-01", "Disable for unapproved users", "ML1", "FAIL", "High", ev(t))>>
   ELSE <<>>)
  \o (IF regex(t, OM01_GPO_RE)
        THEN <<row("ML1-OM-01", "GPO shows macro disabling", "ML1", "PASS", "High", ev(t))>>
        ELSE <<>>)

\* source_file or default
SrcOr(source_file, default) ==
  IF IsNone(source_file) \/ source_file = <<>> THEN S(default) ELSE source_file

\* the rows of ML1-OM-03 .. ML1-OM-07 (lines 138-189)
CM_tail_rows(t) ==
  (IF has(t, OM03_PHRASES)
     THEN <<row("ML1-OM-03", "Internet-sourced (MoTW) macros blocked", "ML1", "PASS", "High",
                ev(t))>> ELSE <<>>)
  \o (IF regex(t, OM04_VALUE_RE) \/ regex(t, OM04_KEY_RE)
        THEN <<row("ML1-OM-04", "Block macros from Internet via GPO/Registry", "ML1", "PASS",
                   "High", ev(t))>> ELSE <<>>)
  \o (IF regex(t, OM05_VALUE_RE) \/ has(t, Phrases(<<"macro runtime scan scope">>))
        THEN <<row("ML1-OM-05", "Macro runtime scanning enabled", "ML1", "PASS", "High",
                   ev(t))>> ELSE <<>>)
  \o (IF has(t, Phrases(<<"eicar">>))
          /\ has(t, Phrases(<<"detect", "quarantine", "blocked", "removed">>))
        THEN <<row("ML1-OM-06", "AV detects macro threat (EICAR)", "ML1", "PASS", "High",
                   ev(t))>> ELSE <<>>)
  \o (IF has(t, OM07_PHRASES)
        THEN <<row("ML1-OM-07", "Prevent user changes", "ML1", "PASS", "Medium", ev(t))>>
        ELSE <<>>)

APPROVED_MARKERS == Phrases(<<"approved users", "allow list">>)
ADGROUP_MARKERS == Phrases(<<"group members", "security group", "ad group">>)

\* what emit_hits computes from its text argument alone
CM_view(text) ==
  LET t == IF IsNone(text) THEN <<>> ELSE text
  IN [om01_rows |-> CM_om01_rows(t),
      identities |-> extract_identities(t),
      approved_marker |-> has(t, APPROVED_MARKERS),
      adgroup_marker |-> has(t, ADGROUP_MARKERS),
      tail_rows |-> CM_tail_rows(t)]

\* the input texts of ConfigureMicrosoftOfficeMacroSettings.emit_hits
CM_TEXTS == {NoneT} \cup Range(Phrases(<<
  "", " \n ", "?!",
  "alice bob", "bob",
  "Approved users: alice, bob",
  "AD group bob alice",
  "allow list / group members: bob",
  "Group Policy: Trust Center: Disable all macros without notification",
  "blockcontentexecutionfrominternet=10 macroruntimescope=12",
  "macroruntimescope = 2 ; EICAR removed ; from the internet ; managed by your organization">>))

\* CM_view of the input texts, computed once
CM_VIEWS == Tabulated([t \in CM_TEXTS |-> CM_view(t)])
View(text) == IF text \in CM_TEXTS THEN CM_VIEWS[text] ELSE CM_view(text)

is_approved_side(fname, text) ==
  Contains(fname, S("approved")) \/ View(text).approved_marker

is_adgroup_side(fname, text) ==
  \/ Contains(fname, S("ad_group")) \/ Contains(fname, S("ad-group"))
  \/ Contains(fname, S("adgroup"))
  \/ View(text).adgroup_marker

\* the side update of lines 110-115 without the "if identities" of line 111
CM_store_unguarded(self, text, source_file) ==
  LET fname == Lower(SrcOr(source_file, ""))
      identities == View(text).identities
  IN IF is_approved_side(fname, text)
       THEN [self EXCEPT !.approved_users = identities,
                         !.approved_src = SrcOr(source_file, "approved_users.txt")]
     ELSE IF is_adgroup_side(fname, text)
       THEN [self EXCEPT !.adgroup_users = identities,
                         !.adgroup_src = SrcOr(source_file, "ad_group.txt")]
     ELSE self

\* the side update storing the AD-group side only once the approved side is populated
CM_store_approved_first(self, text, source_file) ==
  LET fname == Lower(SrcOr(source_file, ""))
      identities == View(text).identities
  IN IF identities # {} /\ is_approved_side(fname, text)
       THEN [self EXCEPT !.approved_users = identities,
                         !.approved_src = SrcOr(source_file, "approved_users.txt")]
     ELSE IF identities # {} /\ is_adgroup_side(fname, text) /\ self.approved_users # NoneSet
       THEN [self EXCEPT !.adgroup_users = identities,
                         !.adgroup_src = SrcOr(source_file, "ad_group.txt")]
     ELSE self

\* the side update with the two branches of lines 112-115 in the opposite order
CM_store_adgroup_first(self, text, source_file) ==
  LET fname == Lower(SrcOr(source_file, ""))
      identities == View(text).identities
  IN IF identities # {} /\ is_adgroup_side(fname, text)
       THEN [self EXCEPT !.adgroup_users = identities,
                         !.adgroup_src = SrcOr(source_file, "ad_group.txt")]
     ELSE IF identities # {} /\ is_approved_side(fname, text)
       THEN [self EXCEPT !.approved_users = identities,
                         !.approved_src = SrcOr(source_file, "approved_users.txt")]
     ELSE self

\* the side update taking evidence of neither side for the approved side
CM_store_default_side(self, text, source_file) ==
  LET fname == Lower(SrcOr(source_file, ""))
      identities == View(text).identities
  IN IF identities # {} /\ is_adgroup_side(fname, text) /\ ~is_approved_side(fname, text)
       THEN [self EXCEPT !.adgroup_users = identities,
                         !.adgroup_src = SrcOr(source_file, "ad_group.txt")]
     ELSE IF identities # {}
       THEN [self EXCEPT !.approved_users = identities,
                         !.approved_src = SrcOr(source_file, "approved_users.txt")]
     ELSE self

\* lines 110-115: the instance after the side update
CM_store(self, text, source_file) ==
  LET fname == Lower(SrcOr(source_file, ""))
      identities == View(text).identities
  IN IF identities # {} /\ is_approved_side(fname, text)
       THEN [self EXCEPT !.approved_users = identities,
                         !.approved_src = SrcOr(source_file, "approved_users.txt")]
     ELSE IF identities # {} /\ is_adgroup_side(fname, text)
       THEN [self EXCEPT !.adgroup_users = identities,
                         !.adgroup_src = SrcOr(source_file, "ad_group.txt")]
     ELSE self

\* the correlated row with the verdict taken from the first difference alone
CM_om02_row_of_missing_only(self, missing_in_ad, extra_in_ad) ==
  LET srcs == self.approved_src \o S(" + ") \o self.adgroup_src
  IN IF missing_in_ad = <<>>
       THEN row("ML1-OM-02", "Approved users list matches AD group", "ML1", "PASS", "Medium",
                <<srcs>>)
       ELSE row("ML1-OM-02", "Approved users list matches AD group", "ML1", "FAIL", "Medium",
                <<S("MissingInAD=") \o ListOrNone(missing_in_ad),
                  S("ExtraInAD=") \o ListOrNone(extra_in_ad),
                  S("SRC=") \o srcs>>)

\* the correlated row of lines 118-135 for the two sorted differences
CM_om02_row_of(self, missing_in_ad, extra_in_ad) ==
  LET srcs == self.approved_src \o S(" + ") \o self.adgroup_src
  IN IF missing_in_ad = <<>> /\ extra_in_ad = <<>>
       THEN row("ML1-OM-02", "Approved users list matches AD group", "ML1", "PASS", "Medium",
                <<srcs>>)
       ELSE row("ML1-OM-02", "Approved users list matches AD group", "ML1", "FAIL", "Medium",
                <<S("MissingInAD=") \o ListOrNone(missing_in_ad),
                  S("ExtraInAD=") \o ListOrNone(extra_in_ad),
                  S("SRC=") \o srcs>>)

\* the correlated row of lines 118-135, on an instance whose two sides are populated
CM_om02_row(self) ==
  CHOOSE r \in {CM_om02_row_of(self, missing_in_ad, extra_in_ad) :
                  missing_in_ad \in {Sorted(self.approved_users \ self.adgroup_users)},
                  extra_in_ad \in {Sorted(self.adgroup_users \ self.approved_users)}} : TRUE

\* the guard of line 117 asking for one populated side only
CM_om02_due_either_side(self) ==
  ~self.om02_emitted /\ (self.approved_users # NoneSet \/ self.adgroup_users # NoneSet)

\* the guard of line 117
CM_om02_due(self) ==
  ~self.om02_emitted /\ self.approved_users # NoneSet /\ self.adgroup_users # NoneSet

\* lines 117-136 without the assignment of line 136
CM_finish_no_flag(stored, text) ==
  [rows |-> View(text).om01_rows
              \o (IF CM_om02_due(stored) THEN <<CM_om02_row(stored)>> ELSE <<>>)
              \o View(text).tail_rows,
   self |-> stored]

\* lines 117-136 with _om02_emitted assigned on every call: whether this call has
\* appended the correlated row
CM_finish_flag_per_call(stored, text) ==
  LET due == CM_om02_due(stored)
  IN [rows |-> View(text).om01_rows
                 \o (IF due THEN <<CM_om02_row(stored)>> ELSE <<>>)
                 \o View(text).tail_rows,
      self |-> [stored EXCEPT !.om02_emitted = due]]

\* lines 117-136 and the return: the rows and the instance, after the side update
CM_finish(stored, text) ==
  LET due == CM_om02_due(stored)
  IN [rows |-> View(text).om01_rows
                 \o (IF due THEN <<CM_om02_row(stored)>> ELSE <<>>)
                 \o View(text).tail_rows,
      self |-> IF due THEN [stored EXCEPT !.om02_emitted = TRUE] ELSE stored]

\* ConfigureMicrosoftOfficeMacroSettings.emit_hits: the rows returned and the
\* instance after the call
CM_emit_hits(self, text, source_file) ==
  CHOOSE r \in {CM_finish(stored, text) : stored \in {CM_store(self, text, source_file)}} : TRUE

\* ------------------------------------------------------------------------
\* macro_strategy.py: MacroStrategy
\* ------------------------------------------------------------------------

\* the characters _norm keeps: [\w\s:/\-\.]
NORM_KEEP == WordChars \cup SpaceChars \cup Chars(":/-.")

\* _norm with its two substitutions swapped: whitespace collapsed and stripped
\* first, other punctuation turned into spaces afterwards
norm_collapse_first(s) ==
  IF IsNone(s) THEN <<>>
  ELSE LET t == JoinSpace(Split(Lower(s)))
       IN [i \in 1..Len(t) |-> IF t[i] \in NORM_KEEP THEN t[i] ELSE " "]

\* _norm: lower case, other punctuation to spaces, whitespace collapsed and stripped
norm(s) ==
  IF IsNone(s) THEN <<>>
  ELSE LET low == Lower(s)
           kept == [i \in 1..Len(low) |-> IF low[i] \in NORM_KEEP THEN low[i] ELSE " "]
       IN JoinSpace(Split(kept))

\* re.findall(r"[a-z0-9]+", _norm(x))
words_of(x) == Only({FindAll(<<Plus(LowerChars \cup DigitChars)>>, t) : t \in {norm(x)}})

\* _token_set
token_set(text) == Range(words_of(text))

\* _word_coverage accepting only a coverage above the threshold (> for >=)
word_coverage_strict(text, phrase, threshold) ==
  \E tset \in {token_set(text)}, words \in {words_of(phrase)} :
    LET hits == Cardinality({i \in DOMAIN words : words[i] \in tset})
    IN IF words = <<>> THEN FALSE
       ELSE 100 * hits > threshold * Len(words)

\* _word_coverage, the threshold in hundredths (0.6 is 60)
word_coverage(text, phrase, threshold) ==
  \E tset \in {token_set(text)}, words \in {words_of(phrase)} :
    LET hits == Cardinality({i \in DOMAIN words : words[i] \in tset})
    IN IF words = <<>> THEN FALSE
       ELSE 100 * hits >= threshold * Len(words)

\* _any_fuzzy
any_fuzzy(text, phrases, threshold) ==
  \E t \in {norm(text)} :
    \E i \in DOMAIN phrases :
      \E p_norm \in {norm(phrases[i])} :
        \/ Contains(t, p_norm)
        \/ word_coverage(t, p_norm, threshold)

HexChars == DigitChars \cup Chars("abcdef")

\* None as the result of _int_after (every parsed value is >= 0)
NoInt == -1

HexVal(c) == (CHOOSE i \in 1..16 : S("0123456789abcdef")[i] = c) - 1

\* the value of the digits ds in the given base
RECURSIVE BaseVal(_, _)
BaseVal(ds, base) ==
  IF ds = <<>> THEN 0
  ELSE base * BaseVal(SubSeq(ds, 1, Len(ds) - 1), base) + HexVal(ds[Len(ds)])

\* int(g, 0) for a g matched by (?:0x)?[0-9a-f]+ ; NoInt where it raises ValueError
int0(g) ==
  LET rest == SubSeq(g, 3, Len(g))
  IN IF Len(g) >= 3 /\ SubSeq(g, 1, 2) = S("0x")
       THEN BaseVal(rest, 16)
     ELSE IF Len(g) >= 3 /\ SubSeq(g, 1, 2) = S("0b")
       THEN IF Range(rest) \subseteq Chars("01") THEN BaseVal(rest, 2) ELSE NoInt
     ELSE IF Range(g) \subseteq DigitChars
       THEN IF Len(g) > 1 /\ g[1] = "0" /\ Range(g) # {"0"} THEN NoInt
            ELSE BaseVal(g, 10)
     ELSE NoInt

\* [^0-9a-fx]*
SKIP == [k |-> "cls", neg |-> TRUE, set |-> HexChars \cup {"x"}, min |-> 0, max |-> 0,
         unb |-> TRUE]

\* _int_after: token, then [^0-9a-fx]*, then the group ((?:0x)?[0-9a-f]+)
int_after_norm(token, t) ==
  LET head == <<[k |-> "lit", s |-> Lower(token)], SKIP>>
      group == <<OptAlt(<<<<Lit("0x")>>>>), Plus(HexChars)>>
      starts == {b \in 0..Len(t) : Ends(head \o group, t, b) # {}}
  IN IF starts = {} THEN NoInt
     ELSE LET b == Least(starts)
              g == Greatest(Ends(head, t, b))
              with0x == Ends(<<Lit("0x"), Plus(HexChars)>>, t, g)
              e == IF with0x # {} THEN Greatest(with0x)
                   ELSE Greatest(Ends(<<Plus(HexChars)>>, t, g))
          IN int0(SubSeq(t, g + 1, e))

int_after(token, text) == Only({int_after_norm(token, t) : t \in {norm(text)}})

\* str(n) for n >= 0
RECURSIVE IntStr(_)
IntStr(n) ==
  IF n < 10 THEN <<S("0123456789")[n + 1]>>
  ELSE IntStr(n \div 10) \o <<S("0123456789")[(n % 10) + 1]>>

BANNER_PHRASES == Phrases(<<"microsoft has blocked macros",
                            "macros from the internet have been disabled",
                            "security risk: macros have been blocked",
                            "this file came from the internet",
                            "mark of the web">>)

LOCK_PHRASES == Phrases(<<"managed by your organization",
                          "some settings are managed by your organization",
                          "trust center settings are disabled",
                          "these settings are enforced by your administrator">>)

DISABLE_NO_NOTIFY_PHRASES == Phrases(<<"disable all macros without notification",
                                       "disable without notification",
                                       "vba macros disabled without notification">>)

AV_HIT_PHRASES == Phrases(<<"eicar", "threat found", "quarantined", "blocked",
                            "virus detected", "malware detected">>)

\* MacroStrategy._row
MS_row(test_id, sub, level, pf, prio, rec, evidence) ==
  [test_id |-> test_id, sub_strategy |-> sub, detected_level |-> level, pass_fail |-> pf,
   priority |-> prio, recommendation |-> S(rec), evidence |-> evidence]

\* lines 114-211: the rows of rules 01, 03, 04, 05, 06 and 07, in this order
MS_rules(text_l, vbaw, bcei, mrs) ==
     << IF vbaw = 3 \/ any_fuzzy(text_l, DISABLE_NO_NOTIFY_PHRASES, 60)
          THEN MS_row("ML1-OM-01", "Disable macros (unapproved users)", "ML1", "PASS", "High",
                      "Macros disabled for unapproved users (Disable without notification / VBAWarnings=3).",
                      << IF vbaw # NoInt THEN S("VBAWarnings=") \o IntStr(vbaw)
                         ELSE S("Disable without notification (fuzzy)") >>)
          ELSE MS_row("ML1-OM-01", "Disable macros (unapproved users)", "ML1", "FAIL", "High",
                      "Apply GPO: 'Disable without notification' or set VBAWarnings=3.",
                      <<>>),
        IF any_fuzzy(text_l, BANNER_PHRASES, 55)
          THEN MS_row("ML1-OM-03", "Block macros from Internet (MoTW)", "ML1", "PASS", "High",
                      "Banner or equivalent wording detected that macros from the Internet are blocked.",
                      <<S("MoTW/banner phrase present (fuzzy)")>>)
          ELSE MS_row("ML1-OM-03", "Block macros from Internet (MoTW)", "ML1", "FAIL", "High",
                      "Enable GPO to block macros in Office files from the Internet for all Office apps.",
                      <<>>),
        IF bcei = 1
          THEN MS_row("ML1-OM-04", "Registry: blockcontentexecutionfromInternet", "ML1",
                      "PASS", "High",
                      "blockcontentexecutionfromInternet=1 detected.",
                      <<S("blockcontentexecutionfromInternet=") \o IntStr(bcei)>>)
          ELSE MS_row("ML1-OM-04", "Registry: blockcontentexecutionfromInternet", "ML1",
                      "FAIL", "High",
                      "Set blockcontentexecutionfromInternet=1 (Word/Excel/PowerPoint).", <<>>),
        IF mrs \in {1, 2}
          THEN MS_row("ML1-OM-05", "Macro runtime scanning", "ML1", "PASS", "Medium",
                      "Macro Runtime Scan Scope is enabled.",
                      <<S("macroruntimescope=") \o IntStr(mrs)>>)
          ELSE MS_row("ML1-OM-05", "Macro runtime scanning", "ML1", "FAIL", "Medium",
                      "Enable Macro Runtime Scan Scope (1 or 2) via policy.", <<>>),
        IF any_fuzzy(text_l, AV_HIT_PHRASES, 60)
          THEN MS_row("ML1-OM-06", "AV detects macro payload", "ML1", "PASS", "High",
                      "AV alert/log contains EICAR/Threat/Quarantined keywords.",
                      <<S("AV log keywords present (fuzzy)")>>)
          ELSE MS_row("ML1-OM-06", "AV detects macro payload", "ML1", "FAIL", "High",
                      "Validate AV with an EICAR macro test in a safe environment.", <<>>),
        IF any_fuzzy(text_l, LOCK_PHRASES, 60)
          THEN MS_row("ML1-OM-07", "Prevent user changes (locked Trust Center)", "ML1",
                      "PASS", "Medium",
                      "Trust Center shows settings managed/enforced by organization.", <<S("Lock/managed phrase present (fuzzy)")>>)
          ELSE MS_row("ML1-OM-07", "Prevent user changes (locked Trust Center)", "ML1",
                      "FAIL", "Medium",
                      "Lock macro policies via GPO so users cannot modify Trust Center settings.", <<>>) >>

\* lines 111-211 of MacroStrategy.emit_hits
MS_rule_rows(text) ==
  Only({MS_rules(text_l, vbaw, bcei, mrs) :
          text_l \in {norm(text)},
          vbaw \in {int_after(S("vbawarnings"), norm(text))},
          bcei \in {int_after(S("blockcontentexecutionfrominternet"), norm(text))},
          mrs \in {int_after(S("macroruntimescope"), norm(text))}})

\* the companion files _om02_compare_once looks for, in the order it tries them;
\* a working directory maps each path to the file's content, or to NoneT if absent
APPROVED_PATHS == <<"approved_users.txt", "screenshots/approved_users.txt">>
ADGROUP_PATHS == <<"ad_group.txt", "screenshots/ad_group.txt">>

\* None as the result of the search for a companion file
NoPath == ""

\* next((p for p in paths if p.exists()), None)
first_existing(files, paths) ==
  LET found == {i \in DOMAIN paths : ~IsNone(files[paths[i]])}
  IN IF found = {} THEN NoPath ELSE paths[Least(found)]

\* [a-z0-9._-]+@[a-z0-9.-]+|[a-z0-9._-]+  with re.I
CAPTURE == << Alt(<< <<Plus(AlnumChars \cup Chars("._-")), Lit("@"),
                       Plus(AlnumChars \cup Chars(".-"))>>,
                     <<Plus(AlnumChars \cup Chars("._-"))>> >>) >>

\* lines 245-261: the row for the two captured sets
MS_om02_row(set_approved, set_adgroup) ==
  LET missing_in_ad == Sorted(set_approved \ set_adgroup)
      extra_in_ad == Sorted(set_adgroup \ set_approved)
  IN IF missing_in_ad = <<>> /\ extra_in_ad = <<>>
       THEN MS_row("ML1-OM-02", "Approved users match AD group", "ML1", "PASS", "Medium",
                      "Approved users list equals AD group membership.",
                   <<S("Count=") \o IntStr(Cardinality(set_approved))>>)
       ELSE MS_row("ML1-OM-02", "Approved users match AD group", "ML1", "FAIL", "Medium",
                      "Mismatch between approved list and AD group.",
                   <<S("MissingInAD=") \o ListOrNone(missing_in_ad),
                     S("ExtraInAD=") \o ListOrNone(extra_in_ad)>>)

\* lines 241-261: the row for the texts of the two companion files
MS_om02_compare(aproved_text, adgroup_text) ==
  Only({MS_om02_row(set_approved, set_adgroup) :
          set_approved \in {Range(FindAll(CAPTURE, aproved_text))},
          set_adgroup \in {Range(FindAll(CAPTURE, adgroup_text))}})

\* _om02_compare_once reporting a missing companion as a failed comparison
om02_compare_once_fail_on_missing(files) ==
  LET ap == first_existing(files, APPROVED_PATHS)
      ag == first_existing(files, ADGROUP_PATHS)
  IN IF ap = NoPath \/ ag = NoPath
       THEN MS_row("ML1-OM-02", "Approved users match AD group", "ML1", "FAIL", "Medium",
                   "Mismatch between approved list and AD group.", <<>>)
       ELSE MS_om02_compare(files[ap], files[ag])

\* MacroStrategy._om02_compare_once in a working directory holding files
om02_compare_once(files) ==
  LET ap == first_existing(files, APPROVED_PATHS)
      ag == first_existing(files, ADGROUP_PATHS)
  IN IF ap = NoPath \/ ag = NoPath
       THEN MS_row("ML1-OM-02", "Approved users match AD group", "ML1", "INSUFFICIENT",
                   "Medium",
                      "Need approved_users.txt and ad_group.txt to compare membership.", <<>>)
       ELSE MS_om02_compare(files[ap], files[ag])

\* the texts and the working directories of the calls on a MacroStrategy
MS_TEXTS ==
  {NoneT} \cup
  Range(Phrases(<<"", " ?! ", "VBAWarnings = 3", "vbawarnings=0x3; macroruntimescope: 2",
                  "BlockContentExecutionFromInternet=1 threat found",
                  "blockcontentexecutionfrominternet=10 macroruntimescope=03",
                  "mark of the web; settings managed by organization",
                  "Disable all macros without notification">>))

MS_PATHS == Range(APPROVED_PATHS) \cup Range(ADGROUP_PATHS)
FILE_TEXTS == {NoneT, S("alice, bob"), S("bob")}
MS_FILES == [MS_PATHS -> FILE_TEXTS]
NoFiles == [p \in MS_PATHS |-> NoneT]

\* the two parts of a call's result, computed once per text and per directory
MS_RULE_ROWS == Tabulated([t \in MS_TEXTS |-> MS_rule_rows(t)])
MS_OM02_ROWS == Tabulated([f \in MS_FILES |-> om02_compare_once(f)])
RuleRows(text) == IF text \in MS_TEXTS THEN MS_RULE_ROWS[text] ELSE MS_rule_rows(text)
Om02Row(files) == IF files \in MS_FILES THEN MS_OM02_ROWS[files] ELSE om02_compare_once(files)

\* MacroStrategy.__init__
MS_init == [om02_emitted |-> FALSE]

\* emit_hits without the test of _om02_emitted at line 214
MS_emit_hits_om02_every_call(self, text, files) ==
  [rows |-> RuleRows(text) \o <<Om02Row(files)>>,
   self |-> [self EXCEPT !.om02_emitted = TRUE]]

\* MacroStrategy.emit_hits: the rows returned and the instance after the call
\* (the row of _om02_compare_once is a non-empty dict, so line 216 always holds)
MS_emit_hits(self, text, files) ==
  IF ~self.om02_emitted
    THEN [rows |-> RuleRows(text) \o <<Om02Row(files)>>,
          self |-> [self EXCEPT !.om02_emitted = TRUE]]
    ELSE [rows |-> RuleRows(text), self |-> self]

\* the working directories a call on self can observe: it is read only while
\* ML1-OM-02 has not been emitted (line 214)
MS_DIRS(self) == IF self.om02_emitted THEN {NoFiles} ELSE MS_FILES

\* ------------------------------------------------------------------------
\* Inputs
\* ------------------------------------------------------------------------

\* the longest text is a concatenation of MaxFrags fragments
MaxFrags == 2

\* the concatenations of at most n fragments
RECURSIVE Concats(_, _)
Concats(frags, n) ==
  IF n = 0 THEN {<<>>}
  ELSE LET shorter == Concats(frags, n - 1)
       IN shorter \cup {a \o f : a \in shorter, f \in frags}

AC_FRAGS == Range(Phrases(<<"block", "ed ", "list ", " ", "\n", " Executable Files",
                            "x.exe y.msi ", "enforced ", "chm">>))

RAP_FRAGS == Range(Phrases(<<"access denied", "rbac", "require ", "firewall", " ", "\t",
                             "Ticket", "deny", "paw">>))

AC_TEXTS == Concats(AC_FRAGS, MaxFrags) \cup {NoneT}
RAP_TEXTS == Concats(RAP_FRAGS, MaxFrags) \cup {NoneT}

CM_SOURCES == Range(Phrases(<<"", "Approved.txt", "ad_group.csv">>))

\* ------------------------------------------------------------------------
\* State: one strategy instance and the emit_hits calls made on it
\* ------------------------------------------------------------------------

\* an ML1-OM-02 row is counted up to MaxCount
MaxCount == 2

VARIABLES
  cur_strat,      \* the strategy whose instance the calls go to ("none" before the first call)
  arg_text,       \* raw_text of the last call
  arg_source,     \* source_file of the last call
  arg_files,      \* the working directory the last call could read
  out_rows,       \* the list the last call returned
  cm,             \* the ConfigureMicrosoftOfficeMacroSettings instance
  ms,             \* the MacroStrategy instance
  om02_calls,     \* how many calls on the instance have returned an ML1-OM-02 row
  fn_name,        \* the helper function last called on its own ("none" before the first call)
  fn_args,        \* the arguments the helper functions are called with
  fn_result,      \* what the last helper call returned, or the exception it raised
  heap,           \* the strategy objects load_strategies has created, by object id
  sessions,       \* per load_strategies() call, the list of object ids it returned
  calls,          \* per session, the emit_hits calls made on its instances, with their rows
  threads,        \* per thread calling emit_hits on cm, its position in the call and its rows
  serialized,     \* whether the threads hold a lock around each emit_hits call
  scan            \* the batch scanner: its position in main, its inputs and its report

vars == <<cur_strat, arg_text, arg_source, arg_files, out_rows, cm, ms, om02_calls,
          fn_name, fn_args, fn_result, heap, sessions, calls, threads, serialized,
          scan>>

\* no helper function has been called on its own
NoHelperCall ==
  /\ fn_name = "none"
  /\ fn_args = <<>>
  /\ fn_result = <<>>

\* no strategy has been called: the instances are as constructed
NoStrategyCall ==
  /\ cur_strat = "none"
  /\ arg_text = <<>>
  /\ arg_source = <<>>
  /\ arg_files = NoFiles
  /\ out_rows = <<>>
  /\ cm = CM_init
  /\ ms = MS_init
  /\ om02_calls = 0

\* load_strategies has not been called
NoSession ==
  /\ heap = <<>>
  /\ sessions = <<>>
  /\ calls = <<>>

\* no thread has been started
NoThreads ==
  /\ threads = <<>>
  /\ serialized = FALSE

\* the batch scanner has not been started
NoScan == scan = <<>>

strategy_vars == <<cur_strat, arg_text, arg_source, arg_files, out_rows, cm, ms, om02_calls>>
helper_vars == <<fn_name, fn_args, fn_result>>
registry_vars == <<heap, sessions, calls>>
thread_vars == <<threads, serialized>>

\* the results of the stateless strategies, per input text
AC_RESULTS == Tabulated([t \in AC_TEXTS |-> AC_emit_hits(t)])
RAP_RESULTS == Tabulated([t \in RAP_TEXTS |-> RAP_emit_hits(t)])

HasTestId(rs, tid) == \E i \in DOMAIN rs : rs[i].test_id = tid

Counted(n, rs) ==
  IF HasTestId(rs, "ML1-OM-02") /\ n < MaxCount THEN n + 1 ELSE n

Init == NoStrategyCall /\ NoHelperCall /\ NoSession /\ NoThreads /\ NoScan

\* rows = ApplicationControl().emit_hits(t)
CallAC ==
  \E t \in AC_TEXTS :
    /\ cur_strat \in {"none", "AC"}
    /\ cur_strat' = "AC"
    /\ arg_text' = t
    /\ out_rows' = AC_RESULTS[t]
    /\ UNCHANGED <<arg_source, arg_files, cm, ms, om02_calls, helper_vars, registry_vars, thread_vars, scan>>

\* rows = RestrictAdminPrivileges().emit_hits(t)
CallRAP ==
  \E t \in RAP_TEXTS :
    /\ cur_strat \in {"none", "RAP"}
    /\ cur_strat' = "RAP"
    /\ arg_text' = t
    /\ out_rows' = RAP_RESULTS[t]
    /\ UNCHANGED <<arg_source, arg_files, cm, ms, om02_calls, helper_vars, registry_vars, thread_vars, scan>>

\* rows = Strategy.emit_hits(strat, t): the emit_hits a strategy inherits when it
\* does not define its own
CallBase ==
  \E t \in AC_TEXTS :
    /\ cur_strat \in {"none", "GEN"}
    /\ cur_strat' = "GEN"
    /\ arg_text' = t
    /\ out_rows' = Strategy_emit_hits(t)
    /\ UNCHANGED <<arg_source, arg_files, cm, ms, om02_calls, helper_vars, registry_vars, thread_vars, scan>>

\* rows = cm.emit_hits(t, source_file=src)
CallCM ==
  \E t \in CM_TEXTS, src \in CM_SOURCES :
    \E r \in {CM_emit_hits(cm, t, src)} :
       /\ cur_strat \in {"none", "CM"}
       /\ cur_strat' = "CM"
       /\ arg_text' = t
       /\ arg_source' = src
       /\ out_rows' = r.rows
       /\ cm' = r.self
       /\ om02_calls' = Counted(om02_calls, r.rows)
       /\ UNCHANGED <<arg_files, ms, helper_vars, registry_vars, thread_vars, scan>>

\* rows = ms.emit_hits(t), run in a working directory holding files
CallMS ==
  \E t \in MS_TEXTS, files \in MS_DIRS(ms) :
    \E r \in {MS_emit_hits(ms, t, files)} :
       /\ cur_strat \in {"none", "MS"}
       /\ cur_strat' = "MS"
       /\ arg_text' = t
       /\ arg_files' = files
       /\ out_rows' = r.rows
       /\ ms' = r.self
       /\ om02_calls' = Counted(om02_calls, r.rows)
       /\ UNCHANGED <<arg_source, cm, helper_vars, registry_vars, thread_vars, scan>>

Next == CallAC \/ CallRAP \/ CallBase \/ CallCM \/ CallMS

Spec == Init /\ [][Next]_vars

\* ------------------------------------------------------------------------
\* Properties
\* ------------------------------------------------------------------------

\* the signals of the rule evaluation, read off the normalized text of the last call
AC_ActionSignal(t) == AC_enforce_hit(t) # NoHit \/ AC_block_hit(t) # NoHit
AC_Evidence(t, r) == AC_label_hit(t, r) # NoHit \/ AC_ext_hit(t, r) # NoHit
RAP_ActionSignal(t) == RAP_enforce_hit(t) # NoHit \/ RAP_block_hit(t) # NoHit
RAP_Evidence(t, r) == RAP_label_hit(t, r) # NoHit

AC_Passing(t) == {i \in DOMAIN AC_RULES : AC_ActionSignal(t) /\ AC_Evidence(t, AC_RULES[i])}
RAP_Passing(t) == {i \in DOMAIN RAP_RULES : RAP_ActionSignal(t) /\ RAP_Evidence(t, RAP_RULES[i])}

HasPass(rs, tid) == \E i \in DOMAIN rs : rs[i].test_id = tid /\ rs[i].pass_fail = "Pass"

\* one or more Pass rows and no aggregate row
OnlyPassRows(rs, aggregate) ==
  /\ rs # <<>>
  /\ \A i \in DOMAIN rs : rs[i].pass_fail = "Pass" /\ rs[i].test_id # aggregate.test_id

\* C1 (fallback exclusivity): a call of ApplicationControl.emit_hits or
\* RestrictAdminPrivileges.emit_hits returns one or more Pass rows and no aggregate
\* Fail row when at least one catalogued rule passes, and exactly the one aggregate
\* Fail row when none passes; the result is never empty and never mixes the two.
C1_FallbackExclusivity ==
  /\ cur_strat = "AC" =>
       IF AC_Passing(normalize(arg_text)) # {}
         THEN OnlyPassRows(out_rows, AC_FAIL_ROW)
         ELSE out_rows = <<AC_FAIL_ROW>>
  /\ cur_strat = "RAP" =>
       IF RAP_Passing(normalize(arg_text)) # {}
         THEN OnlyPassRows(out_rows, RAP_FAIL_ROW)
         ELSE out_rows = <<RAP_FAIL_ROW>>

\* a RestrictAdminPrivileges call in which two or more rules passed
C1_Witness ==
  /\ cur_strat = "RAP"
  /\ Cardinality(RAP_Passing(normalize(arg_text))) >= 2
  /\ Len(out_rows) >= 2

\* C2 (AND-policy): a Pass row with rule r's test_id is returned if and only if an
\* action signal (enforcement or block/deny) fires in the normalized text and r's
\* evidence (a label, or for Application Control also an extension pattern) matches.
C2_AndPolicy ==
  /\ cur_strat = "AC" =>
       \A i \in DOMAIN AC_RULES :
         HasPass(out_rows, AC_RULES[i].test_id)
           <=> (AC_ActionSignal(normalize(arg_text))
                  /\ AC_Evidence(normalize(arg_text), AC_RULES[i]))
  /\ cur_strat = "RAP" =>
       \A i \in DOMAIN RAP_RULES :
         HasPass(out_rows, RAP_RULES[i].test_id)
           <=> (RAP_ActionSignal(normalize(arg_text))
                  /\ RAP_Evidence(normalize(arg_text), RAP_RULES[i]))

\* an ApplicationControl call on a text with a rule's evidence and no action
\* signal, which returned no Pass row
C2_Witness ==
  /\ cur_strat = "AC"
  /\ ~AC_ActionSignal(normalize(arg_text))
  /\ \E i \in DOMAIN AC_RULES : AC_Evidence(normalize(arg_text), AC_RULES[i])
  /\ out_rows = <<AC_FAIL_ROW>>

BothPopulated(self) == self.approved_users # NoneSet /\ self.adgroup_users # NoneSet

\* the ML1-OM-02 row of a list that holds one
Om02RowOf(rs) == rs[CHOOSE i \in DOMAIN rs : rs[i].test_id = "ML1-OM-02"]

\* C3 (correlator once-only): over the calls on one ConfigureMicrosoftOfficeMacroSettings
\* instance an ML1-OM-02 row is returned by at most one call, namely the first call at
\* whose end both sides are populated; every later call returns none.
C3_CorrelatorOnceOnly ==
  [][cur_strat' = "CM" =>
       /\ HasTestId(out_rows', "ML1-OM-02") <=> (BothPopulated(cm') /\ ~BothPopulated(cm))
       /\ om02_calls' <= 1
       /\ om02_calls = 1 => ~HasTestId(out_rows', "ML1-OM-02")]_vars

\* a call after the one that returned the row: both sides populated, the call
\* classified for a side with identities of its own, and no ML1-OM-02 row returned
C3_Witness ==
  /\ cur_strat = "CM"
  /\ om02_calls = 1
  /\ BothPopulated(cm)
  /\ View(arg_text).identities # {}
  /\ is_adgroup_side(Lower(arg_source), arg_text)
  /\ ~HasTestId(out_rows, "ML1-OM-02")

\* the evidence entries a failing comparison of the sets a and b lists
DifferenceEvidence(a, b) ==
  << S("MissingInAD=") \o ListOrNone(Sorted(a \ b)),
     S("ExtraInAD=") \o ListOrNone(Sorted(b \ a)) >>

\* the verdict and the evidence of row r agree with the comparison of a and b
ComparesSets(r, a, b) ==
  /\ r.pass_fail = "PASS" <=> (a \ b = {} /\ b \ a = {})
  /\ r.pass_fail = "PASS" <=> a = b
  /\ a # b => /\ r.pass_fail = "FAIL"
              /\ Len(r.evidence) >= 2
              /\ SubSeq(r.evidence, 1, 2) = DifferenceEvidence(a, b)

\* the identity sets MacroStrategy captures from the companion files of a directory
MS_Captured(files, paths) == Range(FindAll(CAPTURE, files[first_existing(files, paths)]))

CompanionsFound(files) ==
  first_existing(files, APPROVED_PATHS) # NoPath /\ first_existing(files, ADGROUP_PATHS) # NoPath

\* C4 (correlated verdict): when the ML1-OM-02 comparison row is emitted, its verdict is
\* pass exactly when both differences of the two identity sets are empty, that is when
\* the sets are equal; otherwise it is fail and the evidence lists both differences.
C4_Om02Verdict ==
  /\ (cur_strat = "CM" /\ HasTestId(out_rows, "ML1-OM-02")) =>
       ComparesSets(Om02RowOf(out_rows), cm.approved_users, cm.adgroup_users)
  /\ (cur_strat = "MS" /\ HasTestId(out_rows, "ML1-OM-02") /\ CompanionsFound(arg_files)) =>
       ComparesSets(Om02RowOf(out_rows), MS_Captured(arg_files, APPROVED_PATHS),
                    MS_Captured(arg_files, ADGROUP_PATHS))

\* a correlated row on sets of which one difference is empty and the other is not
C4_Witness ==
  /\ cur_strat = "CM"
  /\ HasTestId(out_rows, "ML1-OM-02")
  /\ cm.approved_users \ cm.adgroup_users = {}
  /\ cm.adgroup_users \ cm.approved_users # {}
  /\ Om02RowOf(out_rows).pass_fail = "FAIL"

\* C5 (one side only): while at most one of the two sides of a
\* ConfigureMicrosoftOfficeMacroSettings instance has been populated, no call has
\* returned an ML1-OM-02 row of any verdict.
C5_OneSideNeverEmits ==
  (cur_strat = "CM" /\ ~BothPopulated(cm)) =>
    /\ om02_calls = 0
    /\ ~HasTestId(out_rows, "ML1-OM-02")
    /\ ~cm.om02_emitted

\* the approved side populated, the AD-group side not, and nothing emitted
C5_Witness ==
  /\ cur_strat = "CM"
  /\ cm.approved_users # NoneSet
  /\ cm.adgroup_users = NoneSet
  /\ View(arg_text).identities # {}
  /\ ~HasTestId(out_rows, "ML1-OM-02")

\* C6 (first-write-wins per side): a call stores its identity set and source label
\* only if its side is not populated yet; a populated side keeps its stored set and
\* source label through every later call.
C6_FirstWriteWins ==
  [][cur_strat' = "CM" =>
       /\ cm.approved_users # NoneSet =>
            (cm'.approved_users = cm.approved_users /\ cm'.approved_src = cm.approved_src)
       /\ cm.adgroup_users # NoneSet =>
            (cm'.adgroup_users = cm.adgroup_users /\ cm'.adgroup_src = cm.adgroup_src)]_vars

\* the test_ids of the rule catalogues, in catalogue order
TestIds(rules) == [i \in DOMAIN rules |-> rules[i].test_id]
AC_IDS == TestIds(AC_RULES)
RAP_IDS == TestIds(RAP_RULES)
OM_IDS == <<"ML1-OM-01", "ML1-OM-02", "ML1-OM-03", "ML1-OM-04", "ML1-OM-05", "ML1-OM-06",
            "ML1-OM-07">>

\* the rows of rs that carry test_id tid
RowsOf(rs, tid) == {i \in DOMAIN rs : rs[i].test_id = tid}

\* at most one row per catalogued test_id, at most Len(ids) rule rows, at most one
\* aggregate row, and never an aggregate row beside rule rows
RowCountOk(rs, ids, aggregate_id) ==
  LET rule_rows == {i \in DOMAIN rs : rs[i].test_id \in Range(ids)}
      aggregate_rows == RowsOf(rs, aggregate_id)
  IN /\ \A k \in DOMAIN ids : Cardinality(RowsOf(rs, ids[k])) <= 1
     /\ Cardinality(rule_rows) <= Len(ids)
     /\ Cardinality(aggregate_rows) <= 1
     /\ rule_rows \cup aggregate_rows = DOMAIN rs
     /\ ~(rule_rows # {} /\ aggregate_rows # {})

\* C7 (row-count invariant): one emit_hits call of a strategy with N catalogued rules
\* returns at most N pass/fail rows, at most one per catalogued test_id, plus at most
\* one aggregate failure row, and never both an aggregate row and rule rows.
C7_RowCount ==
  /\ cur_strat = "AC" => RowCountOk(out_rows, AC_IDS, AC_FAIL_ROW.test_id)
  /\ cur_strat = "RAP" => RowCountOk(out_rows, RAP_IDS, RAP_FAIL_ROW.test_id)
  /\ cur_strat = "CM" => RowCountOk(out_rows, OM_IDS, "")
  /\ cur_strat = "MS" => RowCountOk(out_rows, OM_IDS, "")

\* the place of a row's test_id in the catalogue ids (0 for an aggregate row)
IdIndex(ids, tid) ==
  IF \E k \in DOMAIN ids : ids[k] = tid THEN CHOOSE k \in DOMAIN ids : ids[k] = tid ELSE 0

\* the rows follow the order of ids; rows of one test_id may follow each other
InOrder(rs, ids) ==
  \A i, j \in DOMAIN rs : i < j => IdIndex(ids, rs[i].test_id) <= IdIndex(ids, rs[j].test_id)

\* the order in which MacroStrategy.emit_hits appends the rows of a call
MS_ORDER == <<"ML1-OM-01", "ML1-OM-03", "ML1-OM-04", "ML1-OM-05", "ML1-OM-06", "ML1-OM-07",
              "ML1-OM-02">>

\* C8 as the code has it (ordering): the rows of ApplicationControl,
\* RestrictAdminPrivileges and ConfigureMicrosoftOfficeMacroSettings come in ascending
\* test_id order; the rows of MacroStrategy are those of ML1-OM-01, 03, 04, 05, 06, 07
\* in this order, followed by the ML1-OM-02 row when the call returns one; when no
\* rule passes, the aggregate Fail row is the sole entry of ApplicationControl and
\* RestrictAdminPrivileges, and ConfigureMicrosoftOfficeMacroSettings has no aggregate.
C8_EmissionOrder ==
  /\ cur_strat = "AC" =>
       /\ InOrder(out_rows, AC_IDS)
       /\ AC_Passing(normalize(arg_text)) = {} => out_rows = <<AC_FAIL_ROW>>
  /\ cur_strat = "RAP" =>
       /\ InOrder(out_rows, RAP_IDS)
       /\ RAP_Passing(normalize(arg_text)) = {} => out_rows = <<RAP_FAIL_ROW>>
  /\ cur_strat = "CM" =>
       /\ InOrder(out_rows, OM_IDS)
       /\ \A i \in DOMAIN out_rows : out_rows[i].test_id \in Range(OM_IDS)
  /\ cur_strat = "MS" =>
       /\ Len(out_rows) \in {6, 7}
       /\ \A i \in DOMAIN out_rows : out_rows[i].test_id = MS_ORDER[i]

\* a MacroStrategy call whose ML1-OM-02 row comes last, after the ML1-OM-07 row
C8_Witness ==
  /\ cur_strat = "MS"
  /\ Len(out_rows) = 7
  /\ out_rows[6].test_id = "ML1-OM-07"
  /\ out_rows[7].test_id = "ML1-OM-02"

\* C8 as stated: the rows of every strategy come in ascending test_id order, and the
\* aggregate failure is the sole entry when no rule is satisfied.
C8_AscendingTestIds ==
  /\ cur_strat = "AC" =>
       /\ InOrder(out_rows, AC_IDS)
       /\ AC_Passing(normalize(arg_text)) = {} => out_rows = <<AC_FAIL_ROW>>
  /\ cur_strat = "RAP" =>
       /\ InOrder(out_rows, RAP_IDS)
       /\ RAP_Passing(normalize(arg_text)) = {} => out_rows = <<RAP_FAIL_ROW>>
  /\ cur_strat = "CM" => InOrder(out_rows, OM_IDS)
  /\ cur_strat = "MS" => InOrder(out_rows, OM_IDS)

\* empty, whitespace-only or None
Blank(t) == IsNone(t) \/ \A i \in DOMAIN t : t[i] \in SpaceChars

\* C9 (empty input is no evidence): on empty, whitespace-only or None text,
\* ApplicationControl and RestrictAdminPrivileges return exactly the aggregate Fail
\* row, and ConfigureMicrosoftOfficeMacroSettings leaves its two identity sets, its two
\* source labels and its emitted flag unchanged whatever the source file name is.
C9_EmptyInput ==
  [][Blank(arg_text') =>
       /\ cur_strat' = "AC" => out_rows' = <<AC_FAIL_ROW>>
       /\ cur_strat' = "RAP" => out_rows' = <<RAP_FAIL_ROW>>
       /\ cur_strat' = "CM" => cm' = cm]_vars

\* a call with whitespace-only text and an approved-side file name on an instance
\* whose AD-group side is populated
C9_Witness ==
  /\ cur_strat = "CM"
  /\ ~IsNone(arg_text)
  /\ arg_text # <<>>
  /\ Blank(arg_text)
  /\ Contains(Lower(arg_source), S("approved"))
  /\ cm.adgroup_users # NoneSet
  /\ cm.approved_users = NoneSet

\* ------------------------------------------------------------------------
\* Essential8_scanner/strategies/overview.py : Strategy
\* ------------------------------------------------------------------------

\* the exception a method call on None raises (not a string: its element is no character)
AttributeError == <<"AttributeError">>
IsRaised(x) == x = AttributeError

\* Strategy.normalize of the Essential8_scanner package: text.lower()
E8_normalize(text) ==
  IF IsNone(text) THEN AttributeError
  ELSE Lower(text)

\* ------------------------------------------------------------------------
\* The normalizers called on their own
\* ------------------------------------------------------------------------

\* all strings over chars of length at most n
Strings(chars, n) == UNION {[1..k -> chars] : k \in 0..n}

MaxNormLen == 3
NORM_CHARS == {"A", "b", "0", " ", "\n", "!", "-"}
NORM_INPUTS == Strings(NORM_CHARS, MaxNormLen) \cup {NoneT}

InitNormalize ==
  /\ NoStrategyCall
  /\ NoSession
  /\ NoThreads
  /\ NoScan
  /\ fn_name = "none"
  /\ fn_args \in NORM_INPUTS
  /\ fn_result = <<>>

\* strategies.overview.Strategy.normalize(fn_args)
ApplyNormalize ==
  /\ fn_name' = "normalize"
  /\ fn_result' = normalize(fn_args)
  /\ UNCHANGED <<fn_args, strategy_vars, registry_vars, thread_vars, scan>>

\* macro_strategy._norm(fn_args)
ApplyNorm ==
  /\ fn_name' = "_norm"
  /\ fn_result' = norm(fn_args)
  /\ UNCHANGED <<fn_args, strategy_vars, registry_vars, thread_vars, scan>>

\* Essential8_scanner.strategies.overview.Strategy.normalize(fn_args)
ApplyE8Normalize ==
  /\ fn_name' = "E8_normalize"
  /\ fn_result' = E8_normalize(fn_args)
  /\ UNCHANGED <<fn_args, strategy_vars, registry_vars, thread_vars, scan>>

NextNormalize == ApplyNormalize \/ ApplyNorm \/ ApplyE8Normalize

SpecNormalize == InitNormalize /\ [][NextNormalize]_vars

\* C11: normalizing a normalized string changes nothing: for every string x,
\* normalize(normalize(x)) = normalize(x) for Strategy.normalize of both
\* packages, and _norm(_norm(x)) = _norm(x).
C11_Idempotence ==
  ~IsNone(fn_args) =>
    /\ fn_name = "normalize" => normalize(fn_result) = fn_result
    /\ fn_name = "_norm" => norm(fn_result) = fn_result
    /\ fn_name = "E8_normalize" => E8_normalize(fn_result) = fn_result

\* _norm has turned upper case and punctuation into "a b"
C11_Witness ==
  /\ fn_name = "_norm"
  /\ fn_args = <<"A", "!", "b">>
  /\ fn_result = S("a b")

\* C12: no normalizer raises: called with any string or with None, Strategy.normalize
\* of both packages and _norm return a string, and None or "" gives "".
C12_NeverRaises ==
  fn_name \in {"normalize", "_norm", "E8_normalize"} =>
    /\ ~IsRaised(fn_result)
    /\ fn_args \in {NoneT, <<>>} => fn_result = <<>>

\* ------------------------------------------------------------------------
\* The fuzzy matchers of macro_strategy.py called on their own
\* ------------------------------------------------------------------------

MaxFuzzyFrags == 2
FUZZY_FRAGS == Range(Phrases(<<"Disable ALL,", "macros ", "without ", "wait... ", "?! ">>))
FUZZY_TEXTS == Concats(FUZZY_FRAGS, MaxFuzzyFrags) \cup {NoneT}

\* phrase lists: the first list is DISABLE_NO_NOTIFY_PHRASES; the last five hold
\* only phrases without a letter or digit
FUZZY_LISTS == {
  DISABLE_NO_NOTIFY_PHRASES,
  Phrases(<<"macros macros all x y">>),
  Phrases(<<"Without_notification">>),
  Phrases(<<"">>),
  Phrases(<<"?!">>),
  Phrases(<<"...">>),
  Phrases(<<"-", ":/">>),
  Phrases(<<"#", "">>) }

\* the thresholds, in hundredths: 0.55 and 0.6 are the ones emit_hits passes
FUZZY_THRESHOLDS == {55, 60, 61}

InitFuzzy ==
  /\ NoStrategyCall
  /\ NoSession
  /\ NoThreads
  /\ NoScan
  /\ fn_name = "none"
  /\ fn_args \in [text : FUZZY_TEXTS, phrases : FUZZY_LISTS, threshold : FUZZY_THRESHOLDS]
  /\ fn_result = <<>>

\* _word_coverage(text, phrases[0], threshold)
ApplyWordCoverage ==
  /\ fn_name' = "_word_coverage"
  /\ fn_result' = word_coverage(fn_args.text, fn_args.phrases[1], fn_args.threshold)
  /\ UNCHANGED <<fn_args, strategy_vars, registry_vars, thread_vars, scan>>

\* _any_fuzzy(text, phrases, threshold)
ApplyAnyFuzzy ==
  /\ fn_name' = "_any_fuzzy"
  /\ fn_result' = any_fuzzy(fn_args.text, fn_args.phrases, fn_args.threshold)
  /\ UNCHANGED <<fn_args, strategy_vars, registry_vars, thread_vars, scan>>

NextFuzzy == ApplyWordCoverage \/ ApplyAnyFuzzy

SpecFuzzy == InitFuzzy /\ [][NextFuzzy]_vars

\* the maximal runs of letters and digits of x in lower case, in order
Tokens(x) ==
  IF IsNone(x) THEN <<>>
  ELSE Only({FindAll(<<Plus(LowerChars \cup DigitChars)>>, low) : low \in {Lower(x)}})

\* the positions of the phrase's tokens that occur among the tokens of the text
Present(x, phrase) ==
  Only({{i \in DOMAIN ws : ws[i] \in ts} : ws \in {Tokens(phrase)}, ts \in {Range(Tokens(x))}})

HitCount == Cardinality(Present(fn_args.text, fn_args.phrases[1]))
PhraseLen == Len(Tokens(fn_args.phrases[1]))

\* C13: _word_coverage accepts a phrase with at least one token exactly when
\* (tokens of the phrase present among the text's tokens) / (tokens of the phrase)
\* is at least the threshold; with 3 of 5 tokens present it accepts at 0.6 and
\* rejects at 0.61.
C13_ThresholdBoundary ==
  fn_name = "_word_coverage" /\ PhraseLen > 0 =>
    /\ fn_result = (100 * HitCount >= fn_args.threshold * PhraseLen)
    /\ PhraseLen = 5 /\ HitCount = 3 /\ fn_args.threshold = 60 => fn_result = TRUE
    /\ PhraseLen = 5 /\ HitCount = 3 /\ fn_args.threshold = 61 => fn_result = FALSE

\* 3 of the 5 tokens of "disable all macros without notification" are in the text,
\* and the phrase is accepted at threshold 0.6
C13_Witness ==
  /\ fn_name = "_word_coverage"
  /\ fn_args.phrases = DISABLE_NO_NOTIFY_PHRASES
  /\ fn_args.text = S("Disable ALL,macros ")
  /\ fn_args.threshold = 60
  /\ HitCount = 3
  /\ PhraseLen = 5
  /\ fn_result = TRUE

\* a phrase list whose phrases all have no token
NoTokenList(phrases) == \A i \in DOMAIN phrases : Tokens(phrases[i]) = <<>>

\* C14: a phrase without tokens never matches: _word_coverage rejects it for every
\* text, and _any_fuzzy reports no match for a list of such phrases.
C14_ZeroTokenNeverMatches ==
  /\ fn_name = "_word_coverage" /\ PhraseLen = 0 => fn_result = FALSE
  /\ fn_name = "_any_fuzzy" /\ NoTokenList(fn_args.phrases) => fn_result = FALSE

\* ------------------------------------------------------------------------
\* _int_after called on its own
\* ------------------------------------------------------------------------

MaxIntFrags == 3
INT_FRAGS == Range(Phrases(<<"VBAWarnings", "macroruntimescope", " = ", ":-", "3", "0x1F",
                             "03", "0b11", " enabled ", "x ">>))
INT_TEXTS == Concats(INT_FRAGS, MaxIntFrags) \cup {NoneT}
INT_KEYS == Range(Phrases(<<"vbawarnings", "MacroRuntimeScope">>))

InitIntAfter ==
  /\ NoStrategyCall
  /\ NoSession
  /\ NoThreads
  /\ NoScan
  /\ fn_name = "none"
  /\ fn_args \in [token : INT_KEYS, text : INT_TEXTS]
  /\ fn_result = <<>>

\* _int_after(token, text)
ApplyIntAfter ==
  /\ fn_name' = "_int_after"
  /\ fn_result' = int_after(fn_args.token, fn_args.text)
  /\ UNCHANGED <<fn_args, strategy_vars, registry_vars, thread_vars, scan>>

NextIntAfter == ApplyIntAfter

SpecIntAfter == InitIntAfter /\ [][NextIntAfter]_vars

\* the positions of t where an occurrence of key ends
KeyEnds(t, key) == {b \in Len(key)..Len(t) : SubSeq(t, b - Len(key) + 1, b) = key}

\* the positions reached from b over separators (characters that start no literal)
SepEnds(t, b) == {g \in b..Len(t) : \A k \in (b + 1)..g : t[k] \notin HexChars \cup {"x"}}

\* the values of the decimal and 0x-prefixed hexadecimal literals of t that start after g
LiteralValues(t, g) ==
  {BaseVal(SubSeq(t, g + 1, e), 10) :
      e \in {e \in (g + 1)..Len(t) : Range(SubSeq(t, g + 1, e)) \subseteq DigitChars}}
  \cup
  {BaseVal(SubSeq(t, g + 3, e), 16) :
      e \in {e \in (g + 3)..Len(t) : /\ SubSeq(t, g + 1, g + 2) = S("0x")
                                     /\ Range(SubSeq(t, g + 3, e)) \subseteq HexChars}}

\* the values of the literals that follow an occurrence of key in t after separators
ValuesAfter(t, key) ==
  UNION {LiteralValues(t, g) : g \in UNION {SepEnds(t, b) : b \in KeyEnds(t, key)}}

\* C15: _int_after never raises; it returns None when the key is absent, and a value
\* it returns is the value of a decimal or 0x-prefixed hexadecimal literal that follows
\* an occurrence of the key after separators ('VBAWarnings = 3' gives 3, '0x1F' gives
\* 31); a literal with leading zeros is not read as octal but gives None.
C15_NumericExtraction ==
  fn_name = "_int_after" =>
    \E t \in {norm(fn_args.text)}, key \in {Lower(fn_args.token)} :
      /\ fn_result \in Nat \cup {NoInt}
      /\ KeyEnds(t, key) = {} => fn_result = NoInt
      /\ fn_result # NoInt => fn_result \in ValuesAfter(t, key)
      /\ fn_args.text = S("VBAWarnings = 3") /\ key = S("vbawarnings") => fn_result = 3
      /\ fn_args.text = S("VBAWarnings = 0x1F") /\ key = S("vbawarnings") => fn_result = 31
      /\ fn_args.text = S("VBAWarnings = 03") /\ key = S("vbawarnings") => fn_result = NoInt

\* ------------------------------------------------------------------------
\* End-to-end results of the stateless strategies
\* ------------------------------------------------------------------------

\* t holds w as a whitespace-delimited word
HasWord(t, w) == S(w) \in Range(Split(t))

\* the string _any_regex returns for the block pattern of line 84
BLOCK_MARKER == S("re:\\bblock(?:ed|ing)?\\b")

\* no label and no extension of a rule other than ML1-AC-01 is in t
OnlyExecEvidence(t) == \A i \in DOMAIN AC_RULES : i > 1 => ~AC_Evidence(t, AC_RULES[i])

\* C16: ApplicationControl.emit_hits on a text that holds the word "block" and the
\* label "executable files", and no label or extension of another rule, returns
\* exactly one row; it is the Pass row of ML1-AC-01 and its evidence holds the
\* matched label and the block marker.
C16_EndToEndPass ==
  cur_strat = "AC" /\ ~IsNone(arg_text) =>
    \E t \in {normalize(arg_text)} :
      HasWord(t, "block") /\ Contains(t, S("executable files")) /\ OnlyExecEvidence(t) =>
        /\ Len(out_rows) = 1
        /\ out_rows[1].pass_fail = "Pass"
        /\ out_rows[1].test_id = "ML1-AC-01"
        /\ S("executable files") \in Range(out_rows[1].evidence)
        /\ BLOCK_MARKER \in Range(out_rows[1].evidence)

\* the call on "block Executable Files" has returned its one row
C16_Witness ==
  /\ cur_strat = "AC"
  /\ arg_text = S("block Executable Files")
  /\ Len(out_rows) = 1
  /\ out_rows[1].evidence = <<S("executable files"), BLOCK_MARKER>>

\* the test_id of an aggregate row over the rules table: "<first id> to <last id>"
SpanOf(rules) == rules[1].test_id \o " to " \o rules[Len(rules)].test_id

\* rs is one Fail row of priority High without evidence whose test_id spans rules
AggregateFail(rs, rules) ==
  /\ Len(rs) = 1
  /\ rs[1].pass_fail = "Fail"
  /\ rs[1].priority = "High"
  /\ rs[1].evidence = <<>>
  /\ rs[1].test_id = SpanOf(rules)

\* C17: when no rule of ApplicationControl or RestrictAdminPrivileges is satisfied,
\* emit_hits returns a single row with pass_fail Fail, priority High and no
\* evidence, whose test_id runs from the first to the last test_id of RULES
\* (ML1-AC-01 to ML1-AC-07, ML1-RA-01 to ML1-RA-08).
C17_EndToEndFail ==
  /\ cur_strat = "AC" /\ AC_Passing(normalize(arg_text)) = {} =>
       AggregateFail(out_rows, AC_RULES) /\ out_rows[1].test_id = "ML1-AC-01 to ML1-AC-07"
  /\ cur_strat = "RAP" /\ RAP_Passing(normalize(arg_text)) = {} =>
       AggregateFail(out_rows, RAP_RULES) /\ out_rows[1].test_id = "ML1-RA-01 to ML1-RA-08"

\* a RestrictAdminPrivileges call on a text with words but no satisfied rule
C17_Witness ==
  /\ cur_strat = "RAP"
  /\ ~IsNone(arg_text)
  /\ Split(arg_text) # <<>>
  /\ RAP_Passing(normalize(arg_text)) = {}
  /\ AggregateFail(out_rows, RAP_RULES)

\* ------------------------------------------------------------------------
\* Missing companion files of MacroStrategy
\* ------------------------------------------------------------------------

\* the rows of rs other than those of ML1-OM-02, in order
OtherRows(rs) == SelectSeq(rs, LAMBDA r : r.test_id # "ML1-OM-02")

\* rs holds exactly one ML1-OM-02 row; it is Insufficient, without evidence, and
\* carries a remediation text
OneInsufficientRow(rs) ==
  /\ Cardinality({i \in DOMAIN rs : rs[i].test_id = "ML1-OM-02"}) = 1
  /\ Om02RowOf(rs).pass_fail = "INSUFFICIENT"
  /\ Om02RowOf(rs).evidence = <<>>
  /\ Om02RowOf(rs).recommendation # <<>>
  /\ Om02RowOf(rs).recommendation
       = S("Need approved_users.txt and ad_group.txt to compare membership.")

\* C18 as stated: whenever a companion file is at none of its paths, the call returns
\* an Insufficient ML1-OM-02 row with a remediation text.
C18_InsufficientOnEveryCall ==
  cur_strat = "MS" /\ ~CompanionsFound(arg_files) => OneInsufficientRow(out_rows)

\* C18 (amended): on the first call of a MacroStrategy instance, when a companion
\* file is at none of its paths, emit_hits returns (without raising) exactly one
\* ML1-OM-02 row, Insufficient and with a remediation text, and its other rows are
\* the ones the same text gives when both companions are present; a later call
\* returns no ML1-OM-02 row at all.
C18_MissingCompanions ==
  [][cur_strat' = "MS" =>
       /\ ~ms.om02_emitted /\ ~CompanionsFound(arg_files') =>
            /\ OneInsufficientRow(out_rows')
            /\ \A f \in MS_FILES :
                 CompanionsFound(f) =>
                   OtherRows(MS_emit_hits(ms, arg_text', f).rows) = OtherRows(out_rows')
       /\ ms.om02_emitted => ~HasTestId(out_rows', "ML1-OM-02")]_vars

\* the first call found approved_users.txt but no ad_group.txt
C18_Witness ==
  /\ cur_strat = "MS"
  /\ om02_calls = 1
  /\ first_existing(arg_files, APPROVED_PATHS) # NoPath
  /\ first_existing(arg_files, ADGROUP_PATHS) = NoPath
  /\ OneInsufficientRow(out_rows)
  /\ Len(out_rows) = 7

\* ------------------------------------------------------------------------
\* strategies/__init__.py : load_strategies, and scan sessions
\* ------------------------------------------------------------------------

\* pkgutil.iter_modules(__path__): the modules of the package, by name
PKG_MODULES == <<
  [modname |-> "application_control", ispkg |-> FALSE],
  [modname |-> "configure_macro_settings", ispkg |-> FALSE],
  [modname |-> "overview", ispkg |-> FALSE],
  [modname |-> "restrict_admin_privileges", ispkg |-> FALSE] >>

\* inspect.getmembers(module, inspect.isclass): the classes in a module's
\* namespace, imported ones included, by name
MODULE_CLASSES == [
  application_control       |-> <<"ApplicationControl", "Strategy">>,
  configure_macro_settings  |-> <<"ConfigureMicrosoftOfficeMacroSettings", "Strategy">>,
  overview                  |-> <<"ABC", "Strategy">>,
  restrict_admin_privileges |-> <<"RestrictAdminPrivileges", "Strategy">> ]

\* the class statements: base class and the class attribute name
CLASSES == [
  ABC                                   |-> [base |-> "object", name |-> ""],
  Strategy                              |-> [base |-> "ABC", name |-> "Generic"],
  ApplicationControl                    |-> [base |-> "Strategy", name |-> "Application Control"],
  ConfigureMicrosoftOfficeMacroSettings |->
    [base |-> "Strategy", name |-> "Configure Microsoft Office Macro Settings"],
  RestrictAdminPrivileges               |-> [base |-> "Strategy", name |-> "Restrict Admin Privileges"] ]

\* issubclass(obj, Strategy)
IsStrategy(c) == c = "Strategy" \/ CLASSES[c].base = "Strategy"

\* obj(): a new object of class c with the attributes its __init__ sets
NoAttrs == <<>>
New(c) ==
  [cls |-> c,
   self |-> IF c = "ConfigureMicrosoftOfficeMacroSettings" THEN CM_init ELSE NoAttrs]

\* s.name.lower() of the object with id oid
NameKey(h, oid) == Lower(S(CLASSES[h[oid].cls].name))

\* list.sort(key=...): stable, ascending by key
SortByName(h, ids) ==
  LET Before(j, k) == \/ StrLess(NameKey(h, ids[j]), NameKey(h, ids[k]))
                      \/ NameKey(h, ids[j]) = NameKey(h, ids[k]) /\ j < k
  IN [i \in DOMAIN ids |->
        ids[CHOOSE k \in DOMAIN ids :
              Cardinality({j \in DOMAIN ids : Before(j, k)}) = i - 1]]

\* the loop of lines 10-18 with only the issubclass test of line 17
RECURSIVE ClassesFrom_with_base(_)
ClassesFrom_with_base(i) ==
  IF i > Len(PKG_MODULES) THEN <<>>
  ELSE LET m == PKG_MODULES[i]
       IN (IF m.ispkg \/ m.modname = "overview" THEN <<>>
           ELSE SelectSeq(MODULE_CLASSES[m.modname], LAMBDA c : IsStrategy(c)))
          \o ClassesFrom_with_base(i + 1)

\* the loop of lines 10-18 from module i on: the classes instantiated, in order
RECURSIVE ClassesFrom(_)
ClassesFrom(i) ==
  IF i > Len(PKG_MODULES) THEN <<>>
  ELSE LET m == PKG_MODULES[i]
       IN (IF m.ispkg \/ m.modname = "overview" THEN <<>>
           ELSE SelectSeq(MODULE_CLASSES[m.modname],
                          LAMBDA c : IsStrategy(c) /\ c # "Strategy"))
          \o ClassesFrom(i + 1)

\* load_strategies returning the instances of the first call again
load_strategies_cached(h) ==
  LET cs == ClassesFrom(1)
      first == [i \in DOMAIN cs |-> New(cs[i])]
      ids == [i \in DOMAIN cs |-> i]
  IN IF h # <<>> THEN [heap |-> h, strategies |-> SortByName(h, ids)]
     ELSE [heap |-> first, strategies |-> SortByName(first, ids)]

\* load_strategies with the objects h already created: the objects afterwards and
\* the list returned (object ids)
load_strategies(h) ==
  LET cs == ClassesFrom(1)
      h2 == h \o [i \in DOMAIN cs |-> New(cs[i])]
      ids == [i \in DOMAIN cs |-> Len(h) + i]
  IN [heap |-> h2, strategies |-> SortByName(h2, ids)]

\* the number of scan sessions and of emit_hits calls per session
MaxSessions == 2
MaxSessionCalls == 2

\* the (text, source_file) arguments of the calls in a session
SESSION_INPUTS == {
  <<S("Approved users: alice, bob"), S("")>>,
  <<S("AD group bob alice"), S("")>>,
  <<S("bob"), S("ad_group.csv")>> }

\* the ConfigureMicrosoftOfficeMacroSettings instance of a strategies list
CMOf(h, ids) ==
  ids[CHOOSE i \in DOMAIN ids : h[ids[i]].cls = "ConfigureMicrosoftOfficeMacroSettings"]

\* strategies = load_strategies(): a scan session begins
LoadStrategies ==
  /\ Len(sessions) < MaxSessions
  /\ \E r \in {load_strategies(heap)} :
       /\ heap' = r.heap
       /\ sessions' = Append(sessions, r.strategies)
       /\ calls' = Append(calls, <<>>)
  /\ UNCHANGED <<strategy_vars, helper_vars, thread_vars, scan>>

\* rows = strat.emit_hits(text, source_file=src) on the macro-settings instance of session k
SessionEmitHits ==
  \E k \in DOMAIN sessions, in \in SESSION_INPUTS :
    \E oid \in {CMOf(heap, sessions[k])} :
      \E r \in {CM_emit_hits(heap[oid].self, in[1], in[2])} :
        /\ Len(calls[k]) < MaxSessionCalls
        /\ heap' = [heap EXCEPT ![oid].self = r.self]
        /\ calls' = [calls EXCEPT ![k] = Append(@, [text |-> in[1], source |-> in[2],
                                                    rows |-> r.rows])]
        /\ UNCHANGED <<sessions, strategy_vars, helper_vars, thread_vars, scan>>

NextSessions == LoadStrategies \/ SessionEmitHits

SpecSessions == Init /\ [][NextSessions]_vars

\* the classes of the package that derive from Strategy
CONCRETE == {"ApplicationControl", "ConfigureMicrosoftOfficeMacroSettings",
             "RestrictAdminPrivileges"}

\* ids lists objects by display name, compared without regard to case
OrderedByName(h, ids) ==
  \A i, j \in DOMAIN ids : i < j => ~StrLess(NameKey(h, ids[j]), NameKey(h, ids[i]))

\* C19: each load_strategies() call returns exactly one instance per concrete Strategy
\* subclass of the package and none of the abstract base; every instance is created
\* by that call; the list is ordered by display name without regard to case.
C19_Registry ==
  [][sessions' # sessions =>
       \E ids \in {sessions'[Len(sessions')]} :
         /\ \A c \in CONCRETE : Cardinality({i \in DOMAIN ids : heap'[ids[i]].cls = c}) = 1
         /\ \A i \in DOMAIN ids : heap'[ids[i]].cls \in CONCRETE
         /\ \A i \in DOMAIN ids : ids[i] \notin DOMAIN heap
         /\ \A i \in DOMAIN ids : heap'[ids[i]] = New(heap'[ids[i]].cls)
         /\ OrderedByName(heap', ids)]_vars

\* two calls have returned two lists of three instances
C19_Witness ==
  /\ Len(sessions) = 2
  /\ Len(sessions[1]) = 3
  /\ Len(sessions[2]) = 3
  /\ sessions[1] # sessions[2]

\* the first n calls of cs made on an instance of its own, fresh from __init__:
\* the instance afterwards and the rows of each call
RECURSIVE RunAlone(_, _)
RunAlone(cs, n) ==
  IF n = 0 THEN [self |-> CM_init, rows |-> <<>>]
  ELSE Only({ Only({ [self |-> r.self, rows |-> Append(prev.rows, r.rows)] :
                       r \in {CM_emit_hits(prev.self, cs[n].text, cs[n].source)} }) :
              prev \in {RunAlone(cs, n - 1)} })

\* the rows the calls of session k returned, call by call
RowsReturned(k) == [i \in DOMAIN calls[k] |-> calls[k][i].rows]

\* C20: the instances of separate load_strategies() calls are different objects, and
\* however the emit_hits calls of two sessions are interleaved, the macro-settings
\* instance of each session returns the rows, and ends in the state, that its own
\* calls give on an instance run alone.
C20_SessionIsolation ==
  /\ \A k, l \in DOMAIN sessions :
       k # l => Range(sessions[k]) \cap Range(sessions[l]) = {}
  /\ \A k \in DOMAIN sessions :
       \E alone \in {RunAlone(calls[k], Len(calls[k]))} :
         /\ heap[CMOf(heap, sessions[k])].self = alone.self
         /\ RowsReturned(k) = alone.rows

\* two sessions with two calls each: the first has compared its two sides and
\* returned ML1-OM-02, the second holds one side only
C20_Witness ==
  /\ Len(sessions) = 2
  /\ Len(calls[1]) = 2
  /\ Len(calls[2]) = 2
  /\ HasTestId(calls[1][2].rows, "ML1-OM-02")
  /\ heap[CMOf(heap, sessions[1])].self.om02_emitted
  /\ ~heap[CMOf(heap, sessions[2])].self.om02_emitted
  /\ heap[CMOf(heap, sessions[2])].self.adgroup_users # NoneSet
  /\ heap[CMOf(heap, sessions[2])].self.approved_users = NoneSet

\* ------------------------------------------------------------------------
\* Numeric predicates of the macro-settings rules
\* ------------------------------------------------------------------------

\* the position reached from g over whitespace
SkipSpaces(t, g) == Greatest({e \in g..Len(t) : \A k \in (g + 1)..e : t[k] \in SpaceChars})

\* the position reached from g over decimal digits
SkipDigits(t, g) == Greatest({e \in g..Len(t) : \A k \in (g + 1)..e : t[k] \in DigitChars})

\* the values written in t as "key = <decimal number>", one per occurrence of key
ValuesAt(t, key) ==
  LET eqs == {SkipSpaces(t, b) : b \in KeyEnds(t, key)}
      nums == {SkipSpaces(t, g + 1) : g \in {g \in eqs : g < Len(t) /\ t[g + 1] = "="}}
  IN {BaseVal(SubSeq(t, n + 1, SkipDigits(t, n)), 10) : n \in {n \in nums : SkipDigits(t, n) > n}}

ConfiguredValues(x, key) ==
  IF IsNone(x) THEN {} ELSE Only({ValuesAt(t, S(key)) : t \in {Lower(x)}})

\* rs holds a pass row of rule tid
HasPassRow(rs, tid) == \E i \in DOMAIN rs : rs[i].test_id = tid /\ rs[i].pass_fail = "PASS"

\* the other ways of ConfigureMicrosoftOfficeMacroSettings to pass ML1-OM-04 and
\* ML1-OM-05: the registry key path and the phrase "macro runtime scan scope"
OtherRoute04(x) == ~IsNone(x) /\ regex(x, OM04_KEY_RE)
OtherRoute05(x) == ~IsNone(x) /\ has(x, Phrases(<<"macro runtime scan scope">>))

\* C21: in both macro-settings implementations ML1-OM-04 passes on its numeric check
\* only for blockcontentexecutionfrominternet = 1, and ML1-OM-05 only for
\* macroruntimescope = 1 or 2: a text that configures only other values (0, 3, 10,
\* 12) gets no pass row of the rule from the numeric check.
C21_NumericPredicates ==
  cur_strat \in {"CM", "MS"} =>
    \E v4 \in {ConfiguredValues(arg_text, "blockcontentexecutionfrominternet")},
       v5 \in {ConfiguredValues(arg_text, "macroruntimescope")} :
      /\ v4 # {} /\ 1 \notin v4 /\ ~OtherRoute04(arg_text)
           => ~HasPassRow(out_rows, "ML1-OM-04")
      /\ v5 # {} /\ v5 \cap {1, 2} = {} /\ ~OtherRoute05(arg_text)
           => ~HasPassRow(out_rows, "ML1-OM-05")

\* ------------------------------------------------------------------------
\* Verdict domain
\* ------------------------------------------------------------------------

\* the verdict a pass_fail string stands for: the string without regard to letter case
VerdictOf(pf) == Lower(S(pf))
VERDICTS == {S("pass"), S("fail"), S("insufficient")}

\* C22: every row a call of emit_hits returns, for every strategy, input and state of
\* the correlator, carries a pass_fail that is one of pass, fail and insufficient
\* (written Pass/Fail by ApplicationControl and RestrictAdminPrivileges, and
\* PASS/FAIL/INSUFFICIENT by the two macro-settings strategies).
C22_VerdictDomain ==
  \A i \in DOMAIN out_rows : VerdictOf(out_rows[i].pass_fail) \in VERDICTS

\* a MacroStrategy call has returned rows of all three verdicts
C22_Witness ==
  /\ cur_strat = "MS"
  /\ {out_rows[i].pass_fail : i \in DOMAIN out_rows} = {"PASS", "FAIL", "INSUFFICIENT"}

\* ------------------------------------------------------------------------
\* Evidence order of a Pass row
\* ------------------------------------------------------------------------

\* the first phrase of the table, in table order, that the text contains: a list of
\* one entry, or of none when no phrase is contained
FirstPhrase(t, table) ==
  LET found == {i \in DOMAIN table : Contains(t, table[i])}
  IN IF found = {} THEN <<>> ELSE <<table[Least(found)]>>

\* the marker of the first pattern of the table, in table order, found in the text
FirstPattern(t, table) ==
  LET found == {i \in DOMAIN table : Search(table[i].items, t)}
  IN IF found = {} THEN <<>> ELSE <<S("re:") \o table[Least(found)].src>>

RuleOf(rules, tid) == rules[CHOOSE i \in DOMAIN rules : rules[i].test_id = tid]

\* the evidence part and the action part a Pass row of rule r is to carry for text t
EvidencePart(strat, t, r) ==
  IF strat = "AC"
    THEN FirstPhrase(t, AC_LABELS[r.label_key]) \o FirstPattern(t, EXT_PATTERNS_BY_LABEL[r.label_key])
    ELSE FirstPhrase(t, RAP_LABELS[r.label_key])
ActionPart(strat, t) ==
  IF strat = "AC"
    THEN FirstPattern(t, AC_ENFORCE_RE) \o FirstPattern(t, AC_BLOCK_WORD_RE \o BLOCK_REGEX)
    ELSE FirstPattern(t, ACTION_ENFORCE_RE) \o FirstPattern(t, ACTION_BLOCK_RE)

\* C23: the evidence list of every Pass row of ApplicationControl and of
\* RestrictAdminPrivileges is the matched label, the matched extension pattern
\* (ApplicationControl only), the enforcement marker and the block marker, in this
\* order and without the absent ones: at least one evidence entry followed by at
\* least one action entry, each the first phrase or pattern of its table that matched.
C23_EvidenceOrder ==
  cur_strat \in {"AC", "RAP"} =>
    \E t \in {normalize(arg_text)}, rules \in {IF cur_strat = "AC" THEN AC_RULES ELSE RAP_RULES} :
      \A i \in DOMAIN out_rows :
        out_rows[i].pass_fail = "Pass" =>
          \E evid \in {EvidencePart(cur_strat, t, RuleOf(rules, out_rows[i].test_id))},
             act \in {ActionPart(cur_strat, t)} :
            /\ Len(evid) >= 1
            /\ Len(act) >= 1
            /\ out_rows[i].evidence = evid \o act

\* an ApplicationControl Pass row for "block Executable Files": its label is the
\* second phrase of the table (the third is contained in the text as well) and the
\* block marker follows it
C23_Witness ==
  /\ cur_strat = "AC"
  /\ \E i \in DOMAIN out_rows :
       /\ out_rows[i].pass_fail = "Pass"
       /\ out_rows[i].evidence = <<S("executable files"), BLOCK_MARKER>>
       /\ Contains(normalize(arg_text), S("block executable files"))

\* ------------------------------------------------------------------------
\* Two threads calling emit_hits on one ConfigureMicrosoftOfficeMacroSettings
\* instance. A call is three steps, between which the other thread may run: the
\* side update (lines 110-115), the test of line 117, and lines 118-136 with the
\* return. With a lock around the call the steps of one call are not interleaved
\* with those of another.
\* ------------------------------------------------------------------------

THREADS == {"t1", "t2"}

\* the emit_hits calls one thread makes
MaxThreadCalls == 2

\* (raw_text, source_file) of the calls: evidence of either side, and text without
\* identities
THREAD_INPUTS == {<<S("alice bob"), S("Approved.txt")>>,
                  <<S("bob"), S("ad_group.csv")>>,
                  <<S("?!"), S("")>>}

\* line 136
CM_set_emitted_skipped(self) == self
CM_set_emitted(self) == [self EXCEPT !.om02_emitted = TRUE]

InitThreads ==
  /\ NoStrategyCall
  /\ NoHelperCall
  /\ NoSession
  /\ threads = [th \in THREADS |->
                  [pc |-> "idle", text |-> <<>>, source |-> <<>>, rows |-> <<>>, calls |-> 0]]
  /\ serialized \in BOOLEAN
  /\ NoScan

\* the thread enters emit_hits(text, source_file=source) and runs it up to line 115
ThreadStore(th) ==
  \E inp \in THREAD_INPUTS :
    /\ threads[th].pc = "idle"
    /\ threads[th].calls < MaxThreadCalls
    /\ serialized => \A o \in THREADS : threads[o].pc = "idle"
    /\ cm' = CM_store(cm, inp[1], inp[2])
    /\ threads' = [threads EXCEPT ![th] = [pc |-> "check", text |-> inp[1], source |-> inp[2],
                                            rows |-> <<>>, calls |-> @.calls + 1]]
    /\ UNCHANGED <<cur_strat, arg_text, arg_source, arg_files, out_rows, ms, om02_calls,
                   serialized, helper_vars, registry_vars, scan>>

\* line 117; when the test fails the call runs to its return
ThreadCheck(th) ==
  /\ threads[th].pc = "check"
  /\ IF CM_om02_due(cm)
       THEN threads' = [threads EXCEPT ![th].pc = "emit"]
       ELSE threads' = [threads EXCEPT ![th].pc = "idle",
                                       ![th].rows = View(threads[th].text).om01_rows
                                                      \o View(threads[th].text).tail_rows]
  /\ UNCHANGED <<strategy_vars, serialized, helper_vars, registry_vars, scan>>

\* lines 118-136, and the call runs to its return
ThreadEmit(th) ==
  /\ threads[th].pc = "emit"
  /\ \E rs \in {View(threads[th].text).om01_rows \o <<CM_om02_row(cm)>>
                  \o View(threads[th].text).tail_rows} :
       /\ threads' = [threads EXCEPT ![th].pc = "idle", ![th].rows = rs]
       /\ om02_calls' = Counted(om02_calls, rs)
  /\ cm' = CM_set_emitted(cm)
  /\ UNCHANGED <<cur_strat, arg_text, arg_source, arg_files, out_rows, ms,
                 serialized, helper_vars, registry_vars, scan>>

NextThreads == \E th \in THREADS : ThreadStore(th) \/ ThreadCheck(th) \/ ThreadEmit(th)

SpecThreads == InitThreads /\ [][NextThreads]_vars

\* C24: with the emit_hits calls on one instance serialized, the ML1-OM-02 row is
\* returned by at most one call; it is returned by two calls only when the calls are
\* not serialized and the second passes the test of line 117 before the first has set
\* _om02_emitted.
C24_EmittedTwiceOnlyWhenInterleaved ==
  /\ [](serialized => om02_calls <= 1)
  /\ [][om02_calls >= 1 /\ om02_calls' > om02_calls => ~serialized /\ cm.om02_emitted]_vars

\* without the lock, both threads have returned an ML1-OM-02 row from their first call
C24_Witness ==
  /\ ~serialized
  /\ om02_calls = 2
  /\ \A th \in THREADS : threads[th].calls = 1 /\ threads[th].pc = "idle"
                           /\ HasTestId(threads[th].rows, "ML1-OM-02")

\* ------------------------------------------------------------------------
\* The correlator state between the calls
\* ------------------------------------------------------------------------

\* C25: at the end of every emit_hits call on a ConfigureMicrosoftOfficeMacroSettings
\* instance, two populated identity sets imply a true emitted flag; no call takes the
\* flag back to false, and no call takes a populated side back to unpopulated.
C25_CorrelatorState ==
  /\ [](BothPopulated(cm) => cm.om02_emitted)
  /\ [][cm.om02_emitted => cm'.om02_emitted]_vars
  /\ [][cm.approved_users # NoneSet => cm'.approved_users # NoneSet]_vars
  /\ [][cm.adgroup_users # NoneSet => cm'.adgroup_users # NoneSet]_vars

\* a call made after the correlated row was returned: both sides are populated, the
\* flag is set and the call has returned no correlated row
C25_Witness ==
  /\ cur_strat = "CM"
  /\ BothPopulated(cm)
  /\ cm.om02_emitted
  /\ ~HasTestId(out_rows, "ML1-OM-02")
  /\ View(arg_text).identities # {}

\* ------------------------------------------------------------------------
\* The side a call is evidence of
\* ------------------------------------------------------------------------

\* the call stores its identities as the approved side (lines 111-113)
ApprovedEvidence(text, source_file) ==
  /\ View(text).identities # {}
  /\ is_approved_side(Lower(SrcOr(source_file, "")), text)

\* the call stores its identities as the AD-group side (lines 111, 114-115)
AdGroupEvidence(text, source_file) ==
  /\ View(text).identities # {}
  /\ ~is_approved_side(Lower(SrcOr(source_file, "")), text)
  /\ is_adgroup_side(Lower(SrcOr(source_file, "")), text)

\* session k has made the calls c1 then c2, and session l the calls c2 then c1, where
\* c1 is approved-side and c2 AD-group-side evidence
SwappedPair(k, l) ==
  /\ Len(calls[k]) = 2
  /\ Len(calls[l]) = 2
  /\ ApprovedEvidence(calls[k][1].text, calls[k][1].source)
  /\ AdGroupEvidence(calls[k][2].text, calls[k][2].source)
  /\ calls[l][1].text = calls[k][2].text /\ calls[l][1].source = calls[k][2].source
  /\ calls[l][2].text = calls[k][1].text /\ calls[l][2].source = calls[k][1].source

\* C26: one approved-side and one AD-group-side evidence given to a fresh instance
\* yield the same ML1-OM-02 row (verdict, missing and extra lists, source labels) in
\* either order of the two calls, and the row is returned by the second call only.
C26_OrderIndependence ==
  \A k, l \in DOMAIN sessions :
    SwappedPair(k, l) =>
      /\ ~HasTestId(calls[k][1].rows, "ML1-OM-02")
      /\ ~HasTestId(calls[l][1].rows, "ML1-OM-02")
      /\ HasTestId(calls[k][2].rows, "ML1-OM-02")
      /\ HasTestId(calls[l][2].rows, "ML1-OM-02")
      /\ Om02RowOf(calls[k][2].rows) = Om02RowOf(calls[l][2].rows)

\* two sessions have made the same two calls in opposite orders and both have
\* returned a FAIL row that lists alice as missing
C26_Witness ==
  /\ Len(sessions) = 2
  /\ SwappedPair(1, 2)
  /\ Om02RowOf(calls[1][2].rows).pass_fail = "FAIL"
  /\ Om02RowOf(calls[2][2].rows).evidence[1] = S("MissingInAD=['alice']")

\* the file name or the text of the call qualifies it for both sides
BothSides(text, source_file) ==
  /\ is_approved_side(Lower(SrcOr(source_file, "")), text)
  /\ is_adgroup_side(Lower(SrcOr(source_file, "")), text)

\* C27: a call that qualifies as approved-side and as AD-group-side evidence, and
\* from whose text identities are extracted, stores them as the approved side and
\* leaves the set and the source label of the AD-group side as they were; no call
\* populates both sides of an instance on which neither was populated, and no call on
\* a fresh instance returns the ML1-OM-02 row.
C27_ApprovedSidePriority ==
  [][cur_strat' = "CM" =>
       /\ BothSides(arg_text', arg_source') /\ View(arg_text').identities # {} =>
            /\ cm'.approved_users = View(arg_text').identities
            /\ cm'.approved_src = SrcOr(arg_source', "approved_users.txt")
            /\ cm'.adgroup_users = cm.adgroup_users
            /\ cm'.adgroup_src = cm.adgroup_src
       /\ cm.approved_users = NoneSet /\ cm.adgroup_users = NoneSet => ~BothPopulated(cm')
       /\ cm = CM_init => ~HasTestId(out_rows', "ML1-OM-02")]_vars

\* a call with both markers in its text has replaced the approved side and left the
\* populated AD-group side alone
C27_Witness ==
  /\ cur_strat = "CM"
  /\ arg_text = S("allow list / group members: bob")
  /\ cm.approved_users = {S("allow"), S("list"), S("bob")}
  /\ cm.adgroup_users = {S("bob")}
  /\ cm.adgroup_src = S("ad_group.csv")

\* neither the file name nor the text of the call qualifies it for a side
NeitherSide(text, source_file) ==
  /\ ~is_approved_side(Lower(SrcOr(source_file, "")), text)
  /\ ~is_adgroup_side(Lower(SrcOr(source_file, "")), text)

\* C28: a call that is classified as neither side, or from whose text no identity is
\* extracted, leaves the two identity sets, the two source labels and the emitted
\* flag of the instance as they were and returns no ML1-OM-02 row.
C28_CorrelatorFrame ==
  [][cur_strat' = "CM"
       /\ (NeitherSide(arg_text', arg_source') \/ View(arg_text').identities = {}) =>
          /\ cm' = cm
          /\ ~HasTestId(out_rows', "ML1-OM-02")]_vars

\* a call with identities and no side marker, made while one side only is populated,
\* has left that side and the flag alone
C28_Witness ==
  /\ cur_strat = "CM"
  /\ arg_text = S("alice bob")
  /\ arg_source = S("")
  /\ cm.approved_users = NoneSet
  /\ cm.adgroup_users = {S("bob")}
  /\ ~cm.om02_emitted
  /\ ~HasTestId(out_rows, "ML1-OM-02")

\* ------------------------------------------------------------------------
\* The rows of a MacroStrategy call
\* ------------------------------------------------------------------------

\* the rules MacroStrategy.emit_hits evaluates on every call
MS_EVERY_CALL_IDS == {"ML1-OM-01", "ML1-OM-03", "ML1-OM-04", "ML1-OM-05", "ML1-OM-06",
                      "ML1-OM-07"}

\* C29: every MacroStrategy.emit_hits call returns exactly one row for each of
\* ML1-OM-01, 03, 04, 05, 06 and 07; the first call on an instance returns an
\* ML1-OM-02 row as well, seven rows in all, and every later call returns none, six
\* rows in all.
C29_RowsPerCall ==
  [][cur_strat' = "MS" =>
       /\ \A tid \in MS_EVERY_CALL_IDS : Cardinality(RowsOf(out_rows', tid)) = 1
       /\ cur_strat = "none" =>
            Cardinality(RowsOf(out_rows', "ML1-OM-02")) = 1 /\ Len(out_rows') = 7
       /\ cur_strat = "MS" =>
            RowsOf(out_rows', "ML1-OM-02") = {} /\ Len(out_rows') = 6]_vars

\* a later call on the instance, made while the companion files are missing, has
\* returned six rows; the first call had returned the ML1-OM-02 row
C29_Witness ==
  /\ cur_strat = "MS"
  /\ ms.om02_emitted
  /\ om02_calls = 1
  /\ arg_text = S("VBAWarnings = 3")
  /\ arg_files = NoFiles
  /\ Len(out_rows) = 6

\* ------------------------------------------------------------------------
\* backend/scanner.py and scanner.py: main, the batch scanner. The two files hold the
\* same loop; they differ in the extensions discovered and in the sort key of
\* list_supported_files. The text extracted from a file is an input.
\* ------------------------------------------------------------------------

SCANNERS == {"backend/scanner.py", "scanner.py"}

SUPPORTED_IMAGE_EXTS == Range(Phrases(<<".png", ".jpg", ".jpeg", ".tif", ".tiff", ".bmp", ".webp">>))
SUPPORTED_TEXT_EXTS == Range(Phrases(<<".txt", ".log", ".reg", ".csv", ".ini", ".json", ".xml",
                                       ".htm", ".html">>))
SUPPORTED_DOC_EXTS == Range(Phrases(<<".docx", ".pdf">>))

\* the extensions list_supported_files keeps
SupportedExts(scanner) ==
  IF scanner = "backend/scanner.py"
    THEN SUPPORTED_IMAGE_EXTS \cup SUPPORTED_TEXT_EXTS \cup SUPPORTED_DOC_EXTS
    ELSE SUPPORTED_IMAGE_EXTS \cup SUPPORTED_TEXT_EXTS

\* STRAT_DIR_MAP.get(strat.name.lower().strip()) for the strategies of the package, by class
STRAT_DIR_MAP == [c \in CONCRETE |->
  CASE c = "ApplicationControl" -> "application_control"
    [] c = "ConfigureMicrosoftOfficeMacroSettings" -> "configure_macro_settings"
    [] c = "RestrictAdminPrivileges" -> "restrict_admin_privileges"]

\* the files an evidence folder may hold: the sub-folder of the base folder ("" for
\* the base folder itself), the file name and the text extracted from the file
SCAN_FILES == {
  [dir |-> "", name |-> S("a_approved.txt"), text |-> S("alice bob")],
  [dir |-> "", name |-> S("B_ad_group.csv"), text |-> S("bob")],
  [dir |-> "", name |-> S("c.txt"), text |-> S(" \n ")],
  [dir |-> "", name |-> S("notes.md"), text |-> S("bob")],
  [dir |-> "configure_macro_settings", name |-> S("Approved.TXT"), text |-> S("bob")] }

\* Path.suffix
Suffix(name) ==
  LET dots == {i \in 2..Len(name) : name[i] = "."}
  IN IF dots = {} THEN <<>> ELSE SubSeq(name, Greatest(dots), Len(name))

\* Path.as_posix() of a file under the base folder
PosixPath(base, f) ==
  S(base) \o S("/") \o (IF f.dir = "" THEN <<>> ELSE S(f.dir) \o S("/")) \o f.name

\* the sort key of list_supported_files
SortKey(scanner, f) ==
  IF scanner = "backend/scanner.py" THEN Lower(PosixPath("evidence", f)) ELSE Lower(f.name)

\* list_supported_files(folder): the supported files under the folder (of the tree
\* of files), sorted by key; no two files of SCAN_FILES share a key
list_supported_files(scanner, tree, dir) ==
  LET found == {f \in tree : (dir = "" \/ f.dir = dir) /\ Lower(Suffix(f.name)) \in SupportedExts(scanner)}
  IN [i \in 1..Cardinality(found) |->
        CHOOSE f \in found :
          Cardinality({g \in found : StrLess(SortKey(scanner, g), SortKey(scanner, f))}) = i - 1]

\* the files of one strategy: those of its own sub-folder, or of the base folder when
\* the sub-folder holds none (lines 95-103)
FilesFor(scanner, tree, cls) ==
  LET preferred == list_supported_files(scanner, tree, STRAT_DIR_MAP[cls])
  IN IF preferred # <<>> THEN preferred ELSE list_supported_files(scanner, tree, "")

\* "; ".join(xs)
RECURSIVE JoinWith(_, _)
JoinWith(sep, xs) ==
  IF xs = <<>> THEN <<>>
  ELSE IF Len(xs) = 1 THEN xs[1]
  ELSE xs[1] \o sep \o JoinWith(sep, Tail(xs))

\* not raw_text.strip()
IsBlank(text) == \A i \in DOMAIN text : text[i] \in SpaceChars

\* emit_hits of the two strategies without state on the texts of SCAN_FILES,
\* computed once
SCAN_TEXTS == {f.text : f \in SCAN_FILES}
SCAN_ROWS == Tabulated([t \in SCAN_TEXTS |->
  [ApplicationControl |-> AC_emit_hits(t), RestrictAdminPrivileges |-> RAP_emit_hits(t)]])

\* strat.emit_hits(raw_text, source_file=name) on an object: the rows and the
\* attributes of the object afterwards
EmitHits(obj, raw_text, name) ==
  IF obj.cls = "ConfigureMicrosoftOfficeMacroSettings"
    THEN CM_emit_hits(obj.self, raw_text, name)
    ELSE [rows |-> SCAN_ROWS[raw_text][obj.cls], self |-> obj.self]

\* the report row of a finding (the user id and the recommendation column left out)
FindingRow(f, obj, r) ==
  [image |-> f.name, strategy |-> CLASSES[obj.cls].name, test_id |-> r.test_id,
   sub_strategy |-> r.sub_strategy, detected_level |-> r.detected_level,
   pass_fail |-> r.pass_fail, priority |-> r.priority,
   evidence |-> JoinWith(S("; "), r.evidence)]

\* the NO_TEXT and NO_MATCH rows
MarkerRow(f, obj, verdict) ==
  [image |-> f.name, strategy |-> CLASSES[obj.cls].name, test_id |-> "", sub_strategy |-> "",
   detected_level |-> "", pass_fail |-> verdict, priority |-> "Low", evidence |-> <<>>]

\* the loop body without the NO_MATCH row of lines 158-166
ScanBody_without_no_match(obj, f) ==
  IF IsBlank(f.text)
    THEN [rows |-> <<MarkerRow(f, obj, "NO_TEXT")>>, self |-> obj.self, invoked |-> FALSE]
  ELSE Only({ [rows |-> [i \in DOMAIN r.rows |-> FindingRow(f, obj, r.rows[i])],
               self |-> r.self, invoked |-> TRUE] :
              r \in {EmitHits(obj, f.text, f.name)} })

\* the body of "for fpath in files" (lines 112-166) for one file: the report rows it
\* appends, the attributes of the strategy object afterwards, and whether emit_hits ran
ScanBody(obj, f) ==
  IF IsBlank(f.text)
    THEN [rows |-> <<MarkerRow(f, obj, "NO_TEXT")>>, self |-> obj.self, invoked |-> FALSE]
  ELSE Only({ [rows |-> IF r.rows # <<>>
                          THEN [i \in DOMAIN r.rows |-> FindingRow(f, obj, r.rows[i])]
                          ELSE <<MarkerRow(f, obj, "NO_MATCH")>>,
               self |-> r.self, invoked |-> TRUE] :
              r \in {EmitHits(obj, f.text, f.name)} })

InitBatch ==
  /\ NoStrategyCall
  /\ NoHelperCall
  /\ NoSession
  /\ NoThreads
  /\ scan \in [pc : {"menu"}, scanner : SCANNERS, tree : SUBSET SCAN_FILES, chosen : {<<>>},
               si : {0}, files : {<<>>}, fi : {0}, report : {<<>>}, passed : {<<>>}]

\* lines 64-91: the strategies are loaded and the user picks some of them by number
ChooseStrategies ==
  /\ scan.pc = "menu"
  /\ \E r \in {load_strategies(heap)} :
       \E picked \in SUBSET CONCRETE :
         \E chosen \in {SelectSeq(r.strategies, LAMBDA oid : r.heap[oid].cls \in picked)} :
           /\ heap' = r.heap
           /\ scan' = [scan EXCEPT !.pc = IF chosen = <<>> THEN "done" ELSE "strategy",
                                   !.chosen = chosen, !.si = 1]
  /\ UNCHANGED <<strategy_vars, helper_vars, sessions, calls, thread_vars>>

\* lines 93-110: the files of the next strategy are listed; a strategy without files
\* is skipped; after the last strategy the report is saved
BeginStrategy ==
  /\ scan.pc = "strategy"
  /\ IF scan.si > Len(scan.chosen)
       THEN scan' = [scan EXCEPT !.pc = "done"]
       ELSE \E files \in {FilesFor(scan.scanner, scan.tree, heap[scan.chosen[scan.si]].cls)} :
              IF files = <<>>
                THEN scan' = [scan EXCEPT !.si = @ + 1]
                ELSE scan' = [scan EXCEPT !.pc = "file", !.files = files, !.fi = 1]
  /\ UNCHANGED <<strategy_vars, helper_vars, registry_vars, thread_vars>>

\* lines 112-166: one file of the current strategy is read and scanned
ScanFile ==
  /\ scan.pc = "file"
  /\ \E oid \in {scan.chosen[scan.si]}, f \in {scan.files[scan.fi]} :
       \E b \in {ScanBody(heap[oid], f)} :
         /\ heap' = [heap EXCEPT ![oid].self = b.self]
         /\ scan' = [scan EXCEPT
                       !.report = @ \o b.rows,
                       !.passed = IF b.invoked THEN Append(@, <<oid, f>>) ELSE @,
                       !.fi = IF scan.fi < Len(scan.files) THEN @ + 1 ELSE 0,
                       !.files = IF scan.fi < Len(scan.files) THEN @ ELSE <<>>,
                       !.si = IF scan.fi < Len(scan.files) THEN @ ELSE @ + 1,
                       !.pc = IF scan.fi < Len(scan.files) THEN "file" ELSE "strategy"]
  /\ UNCHANGED <<strategy_vars, helper_vars, sessions, calls, thread_vars>>

NextBatch == ChooseStrategies \/ BeginStrategy \/ ScanFile

SpecBatch == InitBatch /\ [][NextBatch]_vars

\* the files discovered for a strategy: the supported files of its own sub-folder, or
\* all supported files when that sub-folder holds none
Discovered(scanner, tree, cls) ==
  LET supported == {f \in tree : Lower(Suffix(f.name)) \in SupportedExts(scanner)}
      own == {f \in supported : f.dir = STRAT_DIR_MAP[cls]}
  IN IF own # {} THEN own ELSE supported

\* the rows the step has appended to the report
Added == SubSeq(scan'.report, Len(scan.report) + 1, Len(scan'.report))

\* C30: in the main loop of the batch scanner every (selected strategy, discovered
\* file) pair adds at least one row to the report: one NO_TEXT row when the text of the
\* file is empty or whitespace only, and then the strategy is not invoked and its
\* object is left as it was; otherwise the rows of the strategy, or one NO_MATCH row
\* when the strategy returns none. Each strategy object is given its files one at a
\* time in ascending order of the sort key.
C30_BatchCoverage ==
  /\ [](scan # <<>> /\ scan.pc = "done" =>
          \A i \in DOMAIN scan.chosen :
            \A f \in Discovered(scan.scanner, scan.tree, heap[scan.chosen[i]].cls) :
              \E k \in DOMAIN scan.report :
                /\ scan.report[k].image = f.name
                /\ scan.report[k].strategy = CLASSES[heap[scan.chosen[i]].cls].name)
  /\ [](scan # <<>> =>
          \A i, j \in DOMAIN scan.passed :
            i < j /\ scan.passed[i][1] = scan.passed[j][1] =>
              StrLess(SortKey(scan.scanner, scan.passed[i][2]),
                      SortKey(scan.scanner, scan.passed[j][2])))
  /\ [][scan # <<>> /\ scan.pc = "file" /\ scan' # scan =>
          \E oid \in {scan.chosen[scan.si]}, f \in {scan.files[scan.fi]} :
            /\ SubSeq(scan'.report, 1, Len(scan.report)) = scan.report
            /\ Len(Added) >= 1
            /\ \A k \in DOMAIN Added : /\ Added[k].image = f.name
                                       /\ Added[k].strategy = CLASSES[heap[oid].cls].name
            /\ IsBlank(f.text) =>
                 /\ Len(Added) = 1
                 /\ Added[1].pass_fail = "NO_TEXT"
                 /\ heap' = heap
                 /\ scan'.passed = scan.passed
            /\ ~IsBlank(f.text) =>
                 /\ scan'.passed = Append(scan.passed, <<oid, f>>)
                 /\ \E r \in {EmitHits(heap[oid], f.text, f.name)} :
                      /\ heap'[oid].self = r.self
                      /\ r.rows = <<>> => Len(Added) = 1 /\ Added[1].pass_fail = "NO_MATCH"
                      /\ r.rows # <<>> =>
                           /\ Len(Added) = Len(r.rows)
                           /\ \A k \in DOMAIN Added :
                                /\ Added[k].test_id = r.rows[k].test_id
                                /\ Added[k].pass_fail = r.rows[k].pass_fail]_vars

\* a finished scan of backend/scanner.py with the two macro-settings files and the
\* blank file in the base folder: the report holds a NO_MATCH row for the approved
\* list, the correlated row for the AD-group file, which comes second in the
\* lower-cased order, and a NO_TEXT row for the blank file
C30_Witness ==
  /\ scan # <<>>
  /\ scan.pc = "done"
  /\ scan.scanner = "backend/scanner.py"
  /\ \E i, j, k \in DOMAIN scan.report :
       /\ i < j /\ j < k
       /\ scan.report[i].image = S("a_approved.txt") /\ scan.report[i].pass_fail = "NO_MATCH"
       /\ scan.report[j].image = S("B_ad_group.csv") /\ scan.report[j].test_id = "ML1-OM-02"
       /\ scan.report[k].image = S("c.txt") /\ scan.report[k].pass_fail = "NO_TEXT"
       /\ scan.report[k].strategy = "Configure Microsoft Office Macro Settings"

====
